---- MODULE Spec2Model ----
(***************************************************************************)
(* A model of the nois randomness oracle (contracts/nois-oracle) and of    *)
(* the gateway's request router (contracts/nois-gateway).                  *)
(*                                                                         *)
(* Every handler is a pure operator from the contract's storage and the    *)
(* call's inputs to the new storage and the response, written in the order *)
(* of the Rust code. The actions apply one handler to the current storage  *)
(* and record the call and its response in `last`.                         *)
(***************************************************************************)
EXTENDS Integers, Sequences, FiniteSets, TLC

\* The fields of a record are written in the order in which their names first
\* occur in this module, which is the order TLC keeps them in.

VARIABLES
    contract,   \* which contract this instance is: "nois-oracle" or "nois-gateway"
    now,        \* env.block.time, a Timestamp <<seconds, nanos>>
    balance,    \* the bank balance of the contract in the incentive denom
    db,         \* the storage of the oracle (CONFIG, BEACONS, SUBMISSIONS, ...)
    gw,         \* the storage of the gateway (archive, drand jobs, counters)
    last,       \* the last call and what it returned
    hist        \* history: the jobs queued, drained and served at once, per round

vars == <<contract, now, balance, db, gw, last, hist>>

(***************************************************************************)
(* Program constants                                                       *)
(***************************************************************************)
NUMBER_OF_INCENTIVES_PER_ROUND == 6
MAX_JOBS_PER_SUBMISSION == 3
MAX_JOBS_PER_SUBMISSION_WITH_VERIFICATION == 2
MAX_JOBS_PER_SUBMISSION_WITHOUT_VERIFICATION == 14
TESTING_MIN_ROUND == 72785
INCENTIVE_AMOUNT == 1000000
TESTING_BALANCE == 100000000
INCENTIVE_DENOM == "unois"
DRAND_CHAIN_HASH == "8990e7a9aaed2ffed73dbd7092123d6f289930540d7651336225dc172e51b2ce"
DRAND_GENESIS == 1595431050
DRAND_ROUND_LENGTH == 30
DELIVER_BEACON_PACKET_LIFETIME == 3600
MOCK_ENV_SECONDS == 1571797419

(***************************************************************************)
(* Bounds of the model                                                     *)
(***************************************************************************)
MaxBlocks == 1      \* how many times the block time advances
MaxJobs == 4        \* requests accepted per round in Spec
BatchJobs == 7      \* requests accepted per round in SpecBatch
MaxRequests == 2    \* requests accepted per round in SpecRound
ProgressJobs == 5   \* requests accepted for the first round in SpecProgress
RouterJobs == 16    \* requests accepted per round in SpecRouter
MaxBeacons == 102   \* rounds archived in SpecBeacons
SmallArchive == 3   \* rounds archived in SpecBeacons before the archive is a large one
MaxOther == 1       \* requests accepted for the second round in SpecQueue
MaxQueue == 4       \* requests accepted per round in SpecQueue

(***************************************************************************)
(* Option<T>, Timestamp and storage maps                                   *)
(***************************************************************************)
None == <<>>
Some(x) == <<x>>
is_some(o) == o # <<>>
unwrap(o) == o[1]

plus_seconds(t, s) == <<t[1] + s, t[2]>>
TimestampLess(a, b) == a[1] < b[1] \/ (a[1] = b[1] /\ a[2] < b[2])

EmptyMap == [k \in {} |-> 0]
has(m, k) == k \in DOMAIN m
may_load(m, k) == IF k \in DOMAIN m THEN Some(m[k]) ELSE None
save(m, k, v) == [x \in (DOMAIN m) \cup {k} |-> IF x = k THEN v ELSE m[x]]
remove(m, k) == [x \in (DOMAIN m) \ {k} |-> m[x]]

Max(S) == CHOOSE x \in S : \A y \in S : y <= x
Min2(a, b) == IF a <= b THEN a ELSE b

(***************************************************************************)
(* drand: round selection, signature verification, randomness              *)
(***************************************************************************)
\* The next round whose publish time is after `base`: round 1 is published at
\* genesis, round r at genesis + (r - 1) * period.
round_after(base) ==
    IF base[1] < DRAND_GENESIS
    THEN 1
    ELSE ((base[1] - DRAND_GENESIS) \div DRAND_ROUND_LENGTH) + 1 + 1

source_id_of(round) == <<"drand", DRAND_CHAIN_HASH, round>>

\* commit_to_drand_round with one fault: the round of the last tick at or
\* before `after` is taken, not the one after it.
commit_to_drand_round_at_tick(after) ==
    LET round == IF after[1] < DRAND_GENESIS
                 THEN 1
                 ELSE ((after[1] - DRAND_GENESIS) \div DRAND_ROUND_LENGTH) + 1
    IN  [round |-> round, source_id |-> source_id_of(round)]

\* commit_to_drand_round with one fault: one round is skipped.
commit_to_drand_round_skips_one(after) ==
    LET round == round_after(after) + 1
    IN  [round |-> round, source_id |-> source_id_of(round)]

\* commit_to_drand_round with one fault: the source id names the round after
\* the committed one.
commit_to_drand_round_source_of_next(after) ==
    LET round == round_after(after)
    IN  [round |-> round, source_id |-> source_id_of(round + 1)]

commit_to_drand_round(after) ==
    LET round == round_after(after)
    IN  [round |-> round, source_id |-> source_id_of(round)]

\* The signature the drand network publishes for `round`; a BLS signature is
\* unique, so this is the only value that verifies for the round.
DrandSignature(round) == <<"drand", round>>
BrokenSignature == <<"broken", 0>>

\* drand mainnet is chained: the signed message is the previous signature
\* and the round.
\* verify with one fault: the previous signature is not part of the message.
verify_without_previous(round, previous_signature, signature) ==
    signature = DrandSignature(round)

verify(round, previous_signature, signature) ==
    /\ signature = DrandSignature(round)
    /\ previous_signature = DrandSignature(round - 1)

\* sha256 of the signature: one value per signature.
derive_randomness(signature) == <<"sha256", signature>>

(***************************************************************************)
(* state.rs of the oracle: the per-round FIFO queue and processed counter  *)
(***************************************************************************)
unprocessed_jobs(d, round) == IF round \in DOMAIN d.JOBS THEN d.JOBS[round] ELSE <<>>

unprocessed_jobs_len(d, round) == Len(unprocessed_jobs(d, round))

unprocessed_jobs_enqueue(d, round, job) ==
    [d EXCEPT !.JOBS = save(d.JOBS, round, Append(unprocessed_jobs(d, round), job))]

\* pop_front: the head and the storage without it (an emptied queue is the
\* same storage as a queue never written).
unprocessed_jobs_dequeue(d, round) ==
    LET q == unprocessed_jobs(d, round)
    IN  IF q = <<>>
        THEN [db |-> d, job |-> None]
        ELSE [db |-> [d EXCEPT !.JOBS = IF Tail(q) = <<>>
                                        THEN remove(d.JOBS, round)
                                        ELSE save(d.JOBS, round, Tail(q))],
              job |-> Some(Head(q))]

get_processed_jobs(d, round) ==
    IF round \in DOMAIN d.PROCESSED_JOBS THEN d.PROCESSED_JOBS[round] ELSE 0

increment_processed_jobs(d, round) ==
    [d EXCEPT !.PROCESSED_JOBS = save(d.PROCESSED_JOBS, round, get_processed_jobs(d, round) + 1)]

\* "" stands for every malformed identifier or moniker.
validate_job_id(job_id) == job_id # ""
validate_moniker(moniker) == moniker # ""

(***************************************************************************)
(* Errors and responses                                                    *)
(***************************************************************************)
NoError == [kind |-> "Ok"]
GenericErr(msg) == [kind |-> "GenericErr", msg |-> msg]
RoundTooLow(round, min_round) == [round |-> round, kind |-> "RoundTooLow", min_round |-> min_round]
InvalidSignature == [kind |-> "InvalidSignature"]
SubmissionExists == [kind |-> "SubmissionExists"]
InvalidJobId == [kind |-> "InvalidJobId"]
InvalidMoniker == [kind |-> "InvalidMoniker"]
ParseErr == [kind |-> "ParseErr"]

NoAck == [kind |-> "None"]
AckProcessed(source_id) == [source_id |-> source_id, kind |-> "Processed"]
AckQueued(source_id) == [source_id |-> source_id, kind |-> "Queued"]
AckError(e) == [kind |-> "Error", error |-> e]

Response(err, d, messages, attributes, ack) ==
    [db |-> d, err |-> err, messages |-> messages, attributes |-> attributes, ack |-> ack]

Failed(err, d) == Response(err, d, <<>>, <<>>, NoAck)

(***************************************************************************)
(* contract.rs of the oracle                                               *)
(***************************************************************************)
\* instantiate: CONFIG is saved, every other map is empty.
instantiate(min_round, incentive_amount, incentive_denom) ==
    [JOBS |-> EmptyMap,
     PROCESSED_JOBS |-> EmptyMap,
     CONFIG |-> [min_round |-> min_round,
                 incentive_amount |-> incentive_amount,
                 incentive_denom |-> incentive_denom],
     BEACONS |-> EmptyMap,
     SUBMISSIONS |-> EmptyMap,
     SUBMISSIONS_ORDER |-> EmptyMap,
     BOTS |-> EmptyMap,
     WHITELIST |-> {}]

\* create_deliver_beacon_ibc_message with one fault: the lifetime is counted
\* from the time the beacon was verified.
create_deliver_beacon_ibc_message_from_verified(blocktime, job, beacon) ==
    [type |-> "IbcMsg::SendPacket",
     channel_id |-> job.channel,
     data |-> [source_id |-> job.source_id,
               job_id |-> job.job_id,
               sender |-> job.sender,
               randomness |-> beacon.randomness],
     timeout |-> plus_seconds(beacon.verified, DELIVER_BEACON_PACKET_LIFETIME)]

create_deliver_beacon_ibc_message(blocktime, job, beacon) ==
    [type |-> "IbcMsg::SendPacket",
     channel_id |-> job.channel,
     data |-> [source_id |-> job.source_id,
               job_id |-> job.job_id,
               sender |-> job.sender,
               randomness |-> beacon.randomness],
     timeout |-> plus_seconds(blocktime, DELIVER_BEACON_PACKET_LIFETIME)]

BankSend(to_address, coin) ==
    [type |-> "BankMsg::Send", to_address |-> to_address, amount |-> <<coin>>]

incentive_amount(config) ==
    [amount |-> config.incentive_amount, denom |-> config.incentive_denom]

\* receive_request_beacon with one fault: a request that is served at once is
\* put into the queue as well.
receive_request_beacon_queues_on_hit(d, blocktime, channel, after, sender, job_id) ==
    IF ~validate_job_id(job_id)
    THEN Failed(InvalidJobId, d)
    ELSE
    LET c == commit_to_drand_round(after)
        job == [source_id |-> c.source_id, job_id |-> job_id,
                channel |-> channel, sender |-> sender]
        beacon == may_load(d.BEACONS, c.round)
    IN  IF is_some(beacon)
        THEN Response(NoError,
                      unprocessed_jobs_enqueue(increment_processed_jobs(d, c.round), c.round, job),
                      <<create_deliver_beacon_ibc_message(blocktime, job, unwrap(beacon))>>,
                      <<>>,
                      AckProcessed(c.source_id))
        ELSE Response(NoError,
                      unprocessed_jobs_enqueue(d, c.round, job),
                      <<>>,
                      <<>>,
                      AckQueued(c.source_id))

\* receive_request_beacon with one fault: a request that is served at once is
\* not counted as processed.
receive_request_beacon_uncounted(d, blocktime, channel, after, sender, job_id) ==
    IF ~validate_job_id(job_id)
    THEN Failed(InvalidJobId, d)
    ELSE
    LET c == commit_to_drand_round(after)
        job == [source_id |-> c.source_id, job_id |-> job_id,
                channel |-> channel, sender |-> sender]
        beacon == may_load(d.BEACONS, c.round)
    IN  IF is_some(beacon)
        THEN Response(NoError,
                      d,
                      <<create_deliver_beacon_ibc_message(blocktime, job, unwrap(beacon))>>,
                      <<>>,
                      AckProcessed(c.source_id))
        ELSE Response(NoError,
                      unprocessed_jobs_enqueue(d, c.round, job),
                      <<>>,
                      <<>>,
                      AckQueued(c.source_id))

receive_request_beacon(d, blocktime, channel, after, sender, job_id) ==
    IF ~validate_job_id(job_id)
    THEN Failed(InvalidJobId, d)
    ELSE
    LET c == commit_to_drand_round(after)
        job == [source_id |-> c.source_id, job_id |-> job_id,
                channel |-> channel, sender |-> sender]
        beacon == may_load(d.BEACONS, c.round)
    IN  IF is_some(beacon)
        THEN Response(NoError,
                      increment_processed_jobs(d, c.round),
                      <<create_deliver_beacon_ibc_message(blocktime, job, unwrap(beacon))>>,
                      <<>>,
                      AckProcessed(c.source_id))
        ELSE Response(NoError,
                      unprocessed_jobs_enqueue(d, c.round, job),
                      <<>>,
                      <<>>,
                      AckQueued(c.source_id))

\* The closure and its or_else: an error becomes an error acknowledgement of
\* a successful call; the storage it returns with is the storage of the call's
\* start.
\* ibc_packet_receive with one fault: the error of the handler is returned
\* instead of being turned into an acknowledgement.
ibc_packet_receive_propagates(d, blocktime, packet) ==
    IF ~packet.data.decodes
    THEN Failed(ParseErr, d)
    ELSE receive_request_beacon(d, blocktime, packet.channel_id,
             packet.data.after, packet.data.sender, packet.data.job_id)

ibc_packet_receive(d, blocktime, packet) ==
    LET res == IF ~packet.data.decodes
               THEN Failed(ParseErr, d)
               ELSE receive_request_beacon(d, blocktime, packet.channel_id,
                        packet.data.after, packet.data.sender, packet.data.job_id)
    IN  IF res.err = NoError
        THEN res
        ELSE Response(NoError, d, <<>>, <<>>, AckError(res.err))

\* execute_register_bot with one fault: a registered bot is replaced by a
\* new record.
execute_register_bot_resets(d, sender, moniker) ==
    IF ~validate_moniker(moniker)
    THEN Failed(InvalidMoniker, d)
    ELSE
    LET bot == [moniker |-> moniker, rounds_added |-> 0]
    IN  Response(NoError, [d EXCEPT !.BOTS = save(d.BOTS, sender, bot)], <<>>, <<>>, NoAck)

execute_register_bot(d, sender, moniker) ==
    IF ~validate_moniker(moniker)
    THEN Failed(InvalidMoniker, d)
    ELSE
    LET old == may_load(d.BOTS, sender)
        bot == IF is_some(old)
               THEN [unwrap(old) EXCEPT !.moniker = moniker]
               ELSE [moniker |-> moniker, rounds_added |-> 0]
    IN  Response(NoError, [d EXCEPT !.BOTS = save(d.BOTS, sender, bot)], <<>>, <<>>, NoAck)

RECURSIVE dewhitelist_each(_, _)
dewhitelist_each(whitelist, bots) ==
    IF bots = <<>> THEN whitelist
    ELSE dewhitelist_each(IF Head(bots) \in whitelist
                          THEN whitelist \ {Head(bots)}
                          ELSE whitelist, Tail(bots))

RECURSIVE whitelist_each(_, _)
whitelist_each(whitelist, bots) ==
    IF bots = <<>> THEN whitelist
    ELSE whitelist_each(IF Head(bots) \notin whitelist
                        THEN whitelist \cup {Head(bots)}
                        ELSE whitelist, Tail(bots))

\* execute_update_whitelist_bots with one fault: the additions are applied
\* before the removals.
execute_update_whitelist_bots_additions_first(d, bots_to_whitelist, bots_to_dewhitelist) ==
    LET added == whitelist_each(d.WHITELIST, bots_to_whitelist)
        removed == dewhitelist_each(added, bots_to_dewhitelist)
    IN  Response(NoError, [d EXCEPT !.WHITELIST = removed], <<>>, <<>>, NoAck)

\* No check of the caller: the handler is not given `info`.
execute_update_whitelist_bots(d, bots_to_whitelist, bots_to_dewhitelist) ==
    LET removed == dewhitelist_each(d.WHITELIST, bots_to_dewhitelist)
        added == whitelist_each(removed, bots_to_whitelist)
    IN  Response(NoError, [d EXCEPT !.WHITELIST = added], <<>>, <<>>, NoAck)

\* The last index of SUBMISSIONS_ORDER under the round's prefix, plus one.
\* next_index with one fault: the prefix is read in ascending order, so the
\* first index is taken for the last.
next_index_ascending(d, round) ==
    LET keys == {k[2] : k \in {x \in DOMAIN d.SUBMISSIONS_ORDER : x[1] = round}}
    IN  IF keys = {} THEN 0 ELSE (CHOOSE x \in keys : \A y \in keys : x <= y) + 1

next_index(d, round) ==
    LET keys == {k[2] : k \in {x \in DOMAIN d.SUBMISSIONS_ORDER : x[1] = round}}
    IN  IF keys = {} THEN 0 ELSE Max(keys) + 1

\* is_eligible with one fault: registration is not asked for.
is_eligible_unregistered(is_registered, is_whitelisted, index) ==
    is_whitelisted /\ index < NUMBER_OF_INCENTIVES_PER_ROUND

\* is_eligible with one fault: the seventh submission is rewarded as well.
is_eligible_top_seven(is_registered, is_whitelisted, index) ==
    is_registered /\ is_whitelisted /\ index <= NUMBER_OF_INCENTIVES_PER_ROUND

is_eligible(is_registered, is_whitelisted, index) ==
    is_registered /\ is_whitelisted /\ index < NUMBER_OF_INCENTIVES_PER_ROUND

\* has_enough_funds with one fault: the balance is not looked at.
has_enough_funds_unchecked(contract_balance, desired) == TRUE

has_enough_funds(contract_balance, desired) == contract_balance >= desired.amount

\* A second save for a round replaces the beacon and its `verified` time.
store_beacon_overwrite(d, round, beacon) ==
    [d EXCEPT !.BEACONS = save(d.BEACONS, round, beacon)]

\* BEACONS is written only when the round has no beacon yet.
store_beacon(d, round, beacon) ==
    IF ~has(d.BEACONS, round)
    THEN [d EXCEPT !.BEACONS = save(d.BEACONS, round, beacon)]
    ELSE d

\* `while let Some(job) = dequeue { ...; jobs_processed += 1;
\*  if jobs_processed >= cap { break } }`
\* Variants of the drain loop of execute_add_round, each with one fault.
RECURSIVE process_jobs_exceeds_cap(_, _, _, _, _, _, _)
process_jobs_exceeds_cap(d, round, blocktime, beacon, cap, out_msgs, jobs_processed) ==
    LET popped == unprocessed_jobs_dequeue(d, round)
    IN  IF ~is_some(popped.job)
        THEN [db |-> d, out_msgs |-> out_msgs, jobs_processed |-> jobs_processed]
        ELSE
        LET d1 == increment_processed_jobs(popped.db, round)
            msg == create_deliver_beacon_ibc_message(blocktime, unwrap(popped.job), beacon)
            msgs1 == Append(out_msgs, msg)
            n1 == jobs_processed + 1
        IN  IF n1 > cap
            THEN [db |-> d1, out_msgs |-> msgs1, jobs_processed |-> n1]
            ELSE process_jobs_exceeds_cap(d1, round, blocktime, beacon, cap, msgs1, n1)

RECURSIVE process_jobs_newest_first(_, _, _, _, _, _, _)
process_jobs_newest_first(d, round, blocktime, beacon, cap, out_msgs, jobs_processed) ==
    LET popped == unprocessed_jobs_dequeue(d, round)
    IN  IF ~is_some(popped.job)
        THEN [db |-> d, out_msgs |-> out_msgs, jobs_processed |-> jobs_processed]
        ELSE
        LET d1 == increment_processed_jobs(popped.db, round)
            msg == create_deliver_beacon_ibc_message(blocktime, unwrap(popped.job), beacon)
            msgs1 == <<msg>> \o out_msgs
            n1 == jobs_processed + 1
        IN  IF n1 >= cap
            THEN [db |-> d1, out_msgs |-> msgs1, jobs_processed |-> n1]
            ELSE process_jobs_newest_first(d1, round, blocktime, beacon, cap, msgs1, n1)

RECURSIVE process_jobs_pop_then_check(_, _, _, _, _, _, _)
process_jobs_pop_then_check(d, round, blocktime, beacon, cap, out_msgs, jobs_processed) ==
    LET popped == unprocessed_jobs_dequeue(d, round)
    IN  IF ~is_some(popped.job)
        THEN [db |-> d, out_msgs |-> out_msgs, jobs_processed |-> jobs_processed]
        ELSE IF jobs_processed >= cap
        THEN [db |-> popped.db, out_msgs |-> out_msgs, jobs_processed |-> jobs_processed]
        ELSE
        LET d1 == increment_processed_jobs(popped.db, round)
            msg == create_deliver_beacon_ibc_message(blocktime, unwrap(popped.job), beacon)
        IN  process_jobs_pop_then_check(d1, round, blocktime, beacon, cap,
                                        Append(out_msgs, msg), jobs_processed + 1)

RECURSIVE process_jobs(_, _, _, _, _, _, _)
process_jobs(d, round, blocktime, beacon, cap, out_msgs, jobs_processed) ==
    LET popped == unprocessed_jobs_dequeue(d, round)
    IN  IF ~is_some(popped.job)
        THEN [db |-> d, out_msgs |-> out_msgs, jobs_processed |-> jobs_processed]
        ELSE
        LET d1 == increment_processed_jobs(popped.db, round)
            msg == create_deliver_beacon_ibc_message(blocktime, unwrap(popped.job), beacon)
            msgs1 == Append(out_msgs, msg)
            n1 == jobs_processed + 1
        IN  IF n1 >= cap
            THEN [db |-> d1, out_msgs |-> msgs1, jobs_processed |-> n1]
            ELSE process_jobs(d1, round, blocktime, beacon, cap, msgs1, n1)

\* The checks without the one for a submission that exists.
add_round_error_no_duplicate_check(d, info, round, previous_signature, signature) ==
    IF info.funds # <<>> THEN GenericErr("Do not send funds")
    ELSE IF round < d.CONFIG.min_round THEN RoundTooLow(round, d.CONFIG.min_round)
    ELSE IF ~verify(round, previous_signature, signature) THEN InvalidSignature
    ELSE NoError

\* The checks of execute_add_round with one fault: the signature is verified
\* before the round is compared with the floor.
add_round_error_signature_first(d, info, round, previous_signature, signature) ==
    IF info.funds # <<>> THEN GenericErr("Do not send funds")
    ELSE IF ~verify(round, previous_signature, signature) THEN InvalidSignature
    ELSE IF round < d.CONFIG.min_round THEN RoundTooLow(round, d.CONFIG.min_round)
    ELSE IF has(d.SUBMISSIONS, <<round, info.sender>>) THEN SubmissionExists
    ELSE NoError

\* The checks of execute_add_round with one fault: the attached funds are
\* looked at last.
add_round_error_funds_last(d, info, round, previous_signature, signature) ==
    IF round < d.CONFIG.min_round THEN RoundTooLow(round, d.CONFIG.min_round)
    ELSE IF ~verify(round, previous_signature, signature) THEN InvalidSignature
    ELSE IF has(d.SUBMISSIONS, <<round, info.sender>>) THEN SubmissionExists
    ELSE IF info.funds # <<>> THEN GenericErr("Do not send funds")
    ELSE NoError

\* add_round_error with one fault: a round that has a submission takes no
\* other one, whoever sends it.
add_round_error_one_submission_per_round(d, info, round, previous_signature, signature) ==
    IF info.funds # <<>> THEN GenericErr("Do not send funds")
    ELSE IF round < d.CONFIG.min_round THEN RoundTooLow(round, d.CONFIG.min_round)
    ELSE IF ~verify(round, previous_signature, signature) THEN InvalidSignature
    ELSE IF has(d.BEACONS, round) THEN SubmissionExists
    ELSE NoError

\* The checks of execute_add_round, in the order of the code.
add_round_error(d, info, round, previous_signature, signature) ==
    IF info.funds # <<>> THEN GenericErr("Do not send funds")
    ELSE IF round < d.CONFIG.min_round THEN RoundTooLow(round, d.CONFIG.min_round)
    ELSE IF ~verify(round, previous_signature, signature) THEN InvalidSignature
    ELSE IF has(d.SUBMISSIONS, <<round, info.sender>>) THEN SubmissionExists
    ELSE NoError

\* `if let Some(mut bot) = BOTS.may_load(..) { bot.rounds_added += 1; save }`
count_round(d, sender) ==
    LET old_bot == may_load(d.BOTS, sender)
    IN  IF is_some(old_bot)
        THEN [d EXCEPT !.BOTS = save(d.BOTS, sender,
                  [unwrap(old_bot) EXCEPT !.rounds_added = @ + 1])]
        ELSE d

\* add_round_commit with one fault: the queue is drained only by the
\* submission that stores the beacon.
add_round_commit_drains_new_round_only(d, blocktime, contract_balance, info, round, signature) ==
    LET config == d.CONFIG
        randomness == derive_randomness(signature)
        beacon == [randomness |-> randomness, verified |-> blocktime]
        is_registered == is_some(may_load(d.BOTS, info.sender))
        d1 == count_round(d, info.sender)
        is_whitelisted == info.sender \in d1.WHITELIST
        d2 == [d1 EXCEPT !.SUBMISSIONS =
                   save(d1.SUBMISSIONS, <<round, info.sender>>, [time |-> blocktime])]
        index == next_index(d2, round)
        d3 == [d2 EXCEPT !.SUBMISSIONS_ORDER =
                   save(d2.SUBMISSIONS_ORDER, <<round, index>>, info.sender)]
        attributes == <<
            <<"round", round>>,
            <<"randomness", randomness>>,
            <<"worker", info.sender>> >>
        eligible == is_eligible(is_registered, is_whitelisted, index)
        bot_desired_incentive == incentive_amount(config)
        attributes1 == IF eligible
                       THEN Append(attributes, <<"bot_incentive", bot_desired_incentive>>)
                       ELSE attributes
        out_msgs == IF eligible /\ has_enough_funds(contract_balance, bot_desired_incentive)
                    THEN <<BankSend(info.sender, bot_desired_incentive)>>
                    ELSE <<>>
        d4 == store_beacon(d3, round, beacon)
        done == IF has(d3.BEACONS, round)
                THEN [db |-> d4, out_msgs |-> out_msgs]
                ELSE process_jobs(d4, round, blocktime, beacon,
                                  MAX_JOBS_PER_SUBMISSION, out_msgs, 0)
    IN  Response(NoError, done.db, done.out_msgs, attributes1, NoAck)

\* add_round_commit with one fault: the jobs of the round after are drained.
add_round_commit_drains_next_round(d, blocktime, contract_balance, info, round, signature) ==
    LET config == d.CONFIG
        randomness == derive_randomness(signature)
        beacon == [randomness |-> randomness, verified |-> blocktime]
        is_registered == is_some(may_load(d.BOTS, info.sender))
        d1 == count_round(d, info.sender)
        is_whitelisted == info.sender \in d1.WHITELIST
        d2 == [d1 EXCEPT !.SUBMISSIONS =
                   save(d1.SUBMISSIONS, <<round, info.sender>>, [time |-> blocktime])]
        index == next_index(d2, round)
        d3 == [d2 EXCEPT !.SUBMISSIONS_ORDER =
                   save(d2.SUBMISSIONS_ORDER, <<round, index>>, info.sender)]
        attributes == <<
            <<"round", round>>,
            <<"randomness", randomness>>,
            <<"worker", info.sender>> >>
        eligible == is_eligible(is_registered, is_whitelisted, index)
        bot_desired_incentive == incentive_amount(config)
        attributes1 == IF eligible
                       THEN Append(attributes, <<"bot_incentive", bot_desired_incentive>>)
                       ELSE attributes
        out_msgs == IF eligible /\ has_enough_funds(contract_balance, bot_desired_incentive)
                    THEN <<BankSend(info.sender, bot_desired_incentive)>>
                    ELSE <<>>
        d4 == store_beacon(d3, round, beacon)
        done == process_jobs(d4, round + 1, blocktime, beacon,
                             MAX_JOBS_PER_SUBMISSION, out_msgs, 0)
    IN  Response(NoError, done.db, done.out_msgs, attributes1, NoAck)

\* execute_add_round after its checks.
add_round_commit(d, blocktime, contract_balance, info, round, signature) ==
    LET config == d.CONFIG
        randomness == derive_randomness(signature)
        beacon == [randomness |-> randomness, verified |-> blocktime]
        is_registered == is_some(may_load(d.BOTS, info.sender))
        d1 == count_round(d, info.sender)
        is_whitelisted == info.sender \in d1.WHITELIST
        d2 == [d1 EXCEPT !.SUBMISSIONS =
                   save(d1.SUBMISSIONS, <<round, info.sender>>, [time |-> blocktime])]
        index == next_index(d2, round)
        d3 == [d2 EXCEPT !.SUBMISSIONS_ORDER =
                   save(d2.SUBMISSIONS_ORDER, <<round, index>>, info.sender)]
        attributes == <<
            <<"round", round>>,
            <<"randomness", randomness>>,
            <<"worker", info.sender>> >>
        eligible == is_eligible(is_registered, is_whitelisted, index)
        bot_desired_incentive == incentive_amount(config)
        attributes1 == IF eligible
                       THEN Append(attributes, <<"bot_incentive", bot_desired_incentive>>)
                       ELSE attributes
        out_msgs == IF eligible /\ has_enough_funds(contract_balance, bot_desired_incentive)
                    THEN <<BankSend(info.sender, bot_desired_incentive)>>
                    ELSE <<>>
        d4 == store_beacon(d3, round, beacon)
        done == process_jobs(d4, round, blocktime, beacon,
                             MAX_JOBS_PER_SUBMISSION, out_msgs, 0)
    IN  Response(NoError, done.db, done.out_msgs, attributes1, NoAck)

\* The bot's counter is saved before the check for a submission that exists.
execute_add_round_counts_first(d, blocktime, contract_balance, info, round, previous_signature, signature) ==
    LET err == add_round_error(d, info, round, previous_signature, signature)
    IN  IF err = NoError
        THEN add_round_commit(d, blocktime, contract_balance, info, round, signature)
        ELSE IF err = SubmissionExists
        THEN Failed(err, count_round(d, info.sender))
        ELSE Failed(err, d)

execute_add_round(d, blocktime, contract_balance, info, round, previous_signature, signature) ==
    LET err == add_round_error(d, info, round, previous_signature, signature)
    IN  IF err # NoError
        THEN Failed(err, d)
        ELSE add_round_commit(d, blocktime, contract_balance, info, round, signature)

\* The queries of the oracle.
query_beacon(d, round) == may_load(d.BEACONS, round)

\* The addresses under the round's prefix of SUBMISSIONS_ORDER in ascending
\* order of their index, each with its stored submission.
query_submissions(d, round) ==
    LET keys == {k[2] : k \in {x \in DOMAIN d.SUBMISSIONS_ORDER : x[1] = round}}
        nth(i) == CHOOSE k \in keys : Cardinality({j \in keys : j < k}) = i - 1
        submissions == [i \in 1..Cardinality(keys) |->
            LET addr == d.SUBMISSIONS_ORDER[<<round, nth(i)>>]
            IN  [bot |-> addr, time |-> d.SUBMISSIONS[<<round, addr>>].time]]
    IN  [round |-> round, submissions |-> submissions]

\* BEACONS.range(low_bound, top_bound, order).take(limit): the archived rounds
\* within the bounds in the given order, at most `limit` of them, each with
\* its beacon.
range_take(d, rounds, order, limit) ==
    LET before(x, y) == IF order = "Ascending" THEN x < y ELSE x > y
        rank == [round \in rounds |-> Cardinality({x \in rounds : before(x, round)})]
        nth == [i \in 1..Min2(limit, Cardinality(rounds)) |->
                   CHOOSE round \in rounds : rank[round] = i - 1]
    IN  [i \in DOMAIN nth |->
            [round |-> nth[i],
             randomness |-> d.BEACONS[nth[i]].randomness,
             verified |-> d.BEACONS[nth[i]].verified]]

\* query_beacons with one fault: the bound includes the cursor.
query_beacons_inclusive(d, start_after, limit, order) ==
    LET take == IF is_some(limit) THEN unwrap(limit) ELSE 100
        within(round) ==
            IF ~is_some(start_after) THEN TRUE
            ELSE IF order = "Ascending" THEN round >= unwrap(start_after)
            ELSE round <= unwrap(start_after)
    IN  [beacons |-> range_take(d, {round \in DOMAIN d.BEACONS : within(round)}, order, take)]

\* The bounds exclude the cursor: the low bound when ascending, the top bound
\* when descending; the other side is open.
query_beacons(d, start_after, limit, order) ==
    LET take == IF is_some(limit) THEN unwrap(limit) ELSE 100
        within(round) ==
            IF ~is_some(start_after) THEN TRUE
            ELSE IF order = "Ascending" THEN round > unwrap(start_after)
            ELSE round < unwrap(start_after)
    IN  [beacons |-> range_take(d, {round \in DOMAIN d.BEACONS : within(round)}, order, take)]

query_job_stats(d, round) ==
    [round |-> round,
     unprocessed |-> unprocessed_jobs_len(d, round),
     processed |-> get_processed_jobs(d, round)]

\* query_bot: the address is validated ("" stands for every invalid
\* address), then BOTS.may_load.
NotFound == [kind |-> "NotFound"]
QueryOk(ret) == [err |-> NoError, ret |-> Some(ret)]
QueryErr(err) == [err |-> err, ret |-> None]

query_bot(d, address) ==
    IF address = "" THEN QueryErr(GenericErr("Invalid input"))
    ELSE QueryOk([bot |-> IF has(d.BOTS, address)
                          THEN Some([moniker |-> d.BOTS[address].moniker,
                                     rounds_added |-> d.BOTS[address].rounds_added,
                                     address |-> address])
                          ELSE None])

\* The addresses SUBMISSIONS_ORDER holds for the round.
submission_addresses(d, round) ==
    {d.SUBMISSIONS_ORDER[k] : k \in {x \in DOMAIN d.SUBMISSIONS_ORDER : x[1] = round}}

\* query with one fault: Beacon reads with load, which fails on a missing
\* record.
query_beacon_loaded(d, msg) ==
    CASE msg.type = "Beacon" ->
            IF has(d.BEACONS, msg.round)
            THEN QueryOk([beacon |-> query_beacon(d, msg.round)])
            ELSE QueryErr(NotFound)
      [] msg.type = "Bot" -> query_bot(d, msg.address)
      [] msg.type = "Submissions" ->
            IF \A addr \in submission_addresses(d, msg.round) : has(d.SUBMISSIONS, <<msg.round, addr>>)
            THEN QueryOk(query_submissions(d, msg.round))
            ELSE QueryErr(NotFound)
      [] msg.type = "JobStats" -> QueryOk(query_job_stats(d, msg.round))

\* query: the dispatcher; every `?` hands the error of the query on.
\* query_submissions loads the submission of each ordered address and fails
\* with NotFound when one is missing.
query(d, msg) ==
    CASE msg.type = "Beacon" -> QueryOk([beacon |-> query_beacon(d, msg.round)])
      [] msg.type = "Bot" -> query_bot(d, msg.address)
      [] msg.type = "Submissions" ->
            IF \A addr \in submission_addresses(d, msg.round) : has(d.SUBMISSIONS, <<msg.round, addr>>)
            THEN QueryOk(query_submissions(d, msg.round))
            ELSE QueryErr(NotFound)
      [] msg.type = "JobStats" -> QueryOk(query_job_stats(d, msg.round))

(***************************************************************************)
(* The gateway: drand_archive.rs, state.rs and request_router.rs           *)
(***************************************************************************)
gateway_instantiate ==
    [ARCHIVE |-> EmptyMap, DRAND_JOBS |-> EmptyMap, PROCESSED_DRAND_JOBS |-> EmptyMap]

archive_lookup(g, round) == may_load(g.ARCHIVE, round)

\* store is a no-op when the round has a record.
archive_store(g, round, randomness) ==
    IF has(g.ARCHIVE, round)
    THEN g
    ELSE [g EXCEPT !.ARCHIVE = save(g.ARCHIVE, round, randomness)]

unprocessed_drand_jobs(g, round) ==
    IF round \in DOMAIN g.DRAND_JOBS THEN g.DRAND_JOBS[round] ELSE <<>>

unprocessed_drand_jobs_len(g, round) == Len(unprocessed_drand_jobs(g, round))

unprocessed_drand_jobs_enqueue(g, round, job) ==
    [g EXCEPT !.DRAND_JOBS = save(g.DRAND_JOBS, round, Append(unprocessed_drand_jobs(g, round), job))]

unprocessed_drand_jobs_dequeue(g, round) ==
    LET q == unprocessed_drand_jobs(g, round)
    IN  IF q = <<>>
        THEN [db |-> g, job |-> None]
        ELSE [db |-> [g EXCEPT !.DRAND_JOBS = IF Tail(q) = <<>>
                                              THEN remove(g.DRAND_JOBS, round)
                                              ELSE save(g.DRAND_JOBS, round, Tail(q))],
              job |-> Some(Head(q))]

get_processed_drand_jobs(g, round) ==
    IF round \in DOMAIN g.PROCESSED_DRAND_JOBS THEN g.PROCESSED_DRAND_JOBS[round] ELSE 0

increment_processed_drand_jobs(g, round) ==
    [g EXCEPT !.PROCESSED_DRAND_JOBS =
        save(g.PROCESSED_DRAND_JOBS, round, get_processed_drand_jobs(g, round) + 1)]

gateway_create_deliver_beacon_ibc_message(blocktime, job, randomness) ==
    [type |-> "IbcMsg::SendPacket",
     channel_id |-> job.channel,
     data |-> [source_id |-> job.source_id,
               randomness |-> randomness,
               origin |-> job.origin],
     timeout |-> plus_seconds(blocktime, DELIVER_BEACON_PACKET_LIFETIME)]

\* RequestRouter::route, which is handle_drand.
handle_drand(g, blocktime, channel, after, origin) ==
    LET c == commit_to_drand_round(after)
        existing_randomness == archive_lookup(g, c.round)
        job == [source_id |-> c.source_id, channel |-> channel, origin |-> origin]
    IN  IF is_some(existing_randomness)
        THEN Response(NoError,
                      increment_processed_drand_jobs(g, c.round),
                      <<gateway_create_deliver_beacon_ibc_message(
                            blocktime, job, unwrap(existing_randomness))>>,
                      <<>>,
                      AckProcessed(c.source_id))
        ELSE Response(NoError,
                      unprocessed_drand_jobs_enqueue(g, c.round, job),
                      <<>>,
                      <<>>,
                      AckQueued(c.source_id))

\* max_jobs_per_submission with one fault: the two caps are exchanged.
max_jobs_per_submission_exchanged(is_verifying_tx) ==
    IF is_verifying_tx
    THEN MAX_JOBS_PER_SUBMISSION_WITHOUT_VERIFICATION
    ELSE MAX_JOBS_PER_SUBMISSION_WITH_VERIFICATION

max_jobs_per_submission(is_verifying_tx) ==
    IF is_verifying_tx
    THEN MAX_JOBS_PER_SUBMISSION_WITH_VERIFICATION
    ELSE MAX_JOBS_PER_SUBMISSION_WITHOUT_VERIFICATION

RECURSIVE new_drand_loop(_, _, _, _, _, _, _)
new_drand_loop(g, round, blocktime, randomness, cap, msgs, jobs_processed) ==
    LET popped == unprocessed_drand_jobs_dequeue(g, round)
    IN  IF ~is_some(popped.job)
        THEN [db |-> g, jobs_processed |-> jobs_processed, msgs |-> msgs]
        ELSE
        LET g1 == increment_processed_drand_jobs(popped.db, round)
            msg == gateway_create_deliver_beacon_ibc_message(
                       blocktime, unwrap(popped.job), randomness)
            msgs1 == Append(msgs, msg)
            n1 == jobs_processed + 1
        IN  IF n1 >= cap
            THEN [db |-> g1, jobs_processed |-> n1, msgs |-> msgs1]
            ELSE new_drand_loop(g1, round, blocktime, randomness, cap, msgs1, n1)

new_drand(g, blocktime, round, randomness, is_verifying_tx) ==
    LET g1 == archive_store(g, round, randomness)
        done == new_drand_loop(g1, round, blocktime, randomness,
                               max_jobs_per_submission(is_verifying_tx), <<>>, 0)
    IN  [db |-> done.db,
         jobs_processed |-> done.jobs_processed,
         msgs |-> done.msgs,
         jobs_left |-> unprocessed_drand_jobs_len(done.db, round)]

(***************************************************************************)
(* The call record and the history                                         *)
(***************************************************************************)
Call(op, sender, args, res, ret) ==
    [err |-> res.err, messages |-> res.messages, attributes |-> res.attributes, ack |-> res.ack,
     sender |-> sender, ret |-> ret, op |-> op,
     args |-> args]

\* What `last` holds after a step of the environment, and after construction.
NoCall == [err |-> NoError, messages |-> <<>>, attributes |-> <<>>, ack |-> NoAck,
           sender |-> "", ret |-> None, op |-> "none", args |-> <<>>]

IsIbcSend(m) == m.type = "IbcMsg::SendPacket"
IsBankSend(m) == m.type = "BankMsg::Send"
IbcMessages(messages) == SelectSeq(messages, IsIbcSend)
BankMessages(messages) == SelectSeq(messages, IsBankSend)

\* The job a delivery message was made from.
JobOfMessage(m) ==
    IF "origin" \in DOMAIN m.data
    THEN [source_id |-> m.data.source_id, channel |-> m.channel_id, origin |-> m.data.origin]
    ELSE [source_id |-> m.data.source_id, job_id |-> m.data.job_id,
          channel |-> m.channel_id, sender |-> m.data.sender]

JobsOfMessages(messages) ==
    LET ibc == IbcMessages(messages)
    IN  [i \in 1..Len(ibc) |-> JobOfMessage(ibc[i])]

SeqAt(m, round) == IF round \in DOMAIN m THEN m[round] ELSE <<>>
Extend(m, round, jobs) == IF jobs = <<>> THEN m ELSE save(m, round, SeqAt(m, round) \o jobs)

\* accepted: the jobs of the requests acknowledged with Queued or Processed;
\* enqueued: those acknowledged with Queued; served: the jobs of the messages
\* emitted with a Processed acknowledgement; drained: the jobs of the messages
\* emitted by submissions. All per round, in the order of the calls.
NoHistory == [accepted |-> EmptyMap, enqueued |-> EmptyMap,
              drained |-> EmptyMap, served |-> EmptyMap]

\* The number of requests accepted so far for a round.
Accepted(round) == Len(SeqAt(hist.accepted, round))

RecordRequest(round, job, res) ==
    IF res.ack.kind = "Queued"
    THEN [hist EXCEPT !.accepted = Extend(@, round, <<job>>),
                      !.enqueued = Extend(@, round, <<job>>)]
    ELSE IF res.ack.kind = "Processed"
    THEN [hist EXCEPT !.accepted = Extend(@, round, <<job>>),
                      !.served = Extend(@, round, JobsOfMessages(res.messages))]
    ELSE hist

(***************************************************************************)
(* Actions: one per entry point, and the environment                       *)
(***************************************************************************)
\* What the bank messages of a response take from the contract's balance.
Paid(messages) ==
    LET sends == BankMessages(messages)
    IN  IF sends = <<>> THEN 0 ELSE sends[1].amount[1].amount

AddRound(sender, funds, round, previous_signature, signature) ==
    /\ contract = "nois-oracle"
    /\ LET info == [sender |-> sender, funds |-> funds]
           res == execute_add_round(db, now, balance, info, round,
                                    previous_signature, signature)
       IN  /\ db' = res.db
           /\ last' = Call("add_round", sender,
                           [round |-> round, previous_signature |-> previous_signature,
                            signature |-> signature,
                            funds |-> funds], res, None)
           /\ hist' = [hist EXCEPT !.drained = Extend(@, round, JobsOfMessages(res.messages))]
           /\ balance' = balance - Paid(res.messages)
    /\ UNCHANGED <<contract, now, gw>>

PacketReceive(channel, data, max_jobs) ==
    /\ contract = "nois-oracle"
    /\ LET packet == [channel_id |-> channel, data |-> data]
           res == ibc_packet_receive(db, now, packet)
           round == round_after(data.after)
           job == [source_id |-> source_id_of(round), job_id |-> data.job_id,
                   channel |-> channel, sender |-> data.sender]
       IN  /\ res.ack.kind \in {"Queued", "Processed"} => Accepted(round) < max_jobs
           /\ db' = res.db
           /\ last' = Call("ibc_packet_receive", "", packet, res, None)
           /\ hist' = RecordRequest(round, job, res)
    /\ UNCHANGED <<contract, now, balance, gw>>

RegisterBot(sender, moniker) ==
    /\ contract = "nois-oracle"
    /\ LET res == execute_register_bot(db, sender, moniker)
       IN  /\ db' = res.db
           /\ last' = Call("register_bot", sender, [moniker |-> moniker], res, None)
    /\ UNCHANGED <<contract, now, balance, gw, hist>>

UpdateWhitelistBots(sender, bots_to_whitelist, bots_to_dewhitelist) ==
    /\ contract = "nois-oracle"
    /\ LET res == execute_update_whitelist_bots(db, bots_to_whitelist, bots_to_dewhitelist)
       IN  /\ db' = res.db
           /\ last' = Call("update_whitelist_bots", sender,
                           [bots_to_whitelist |-> bots_to_whitelist,
                            bots_to_dewhitelist |-> bots_to_dewhitelist], res, None)
    /\ UNCHANGED <<contract, now, balance, gw, hist>>

Route(channel, after, origin, max_jobs) ==
    /\ contract = "nois-gateway"
    /\ LET res == handle_drand(gw, now, channel, after, origin)
           round == round_after(after)
           job == [source_id |-> source_id_of(round), channel |-> channel, origin |-> origin]
       IN  /\ Accepted(round) < max_jobs
           /\ gw' = res.db
           /\ last' = Call("route", "", [after |-> after, channel |-> channel,
                                         origin |-> origin], res, None)
           /\ hist' = RecordRequest(round, job, res)
    /\ UNCHANGED <<contract, now, balance, db>>

NewDrand(round, randomness, is_verifying_tx) ==
    /\ contract = "nois-gateway"
    /\ LET out == new_drand(gw, now, round, randomness, is_verifying_tx)
           res == Response(NoError, out.db, out.msgs, <<>>, NoAck)
       IN  /\ gw' = out.db
           /\ last' = Call("new_drand", "",
                           [round |-> round, randomness |-> randomness,
                            is_verifying_tx |-> is_verifying_tx], res,
                           Some([jobs_processed |-> out.jobs_processed,
                                 jobs_left |-> out.jobs_left]))
           /\ hist' = [hist EXCEPT !.drained = Extend(@, round, JobsOfMessages(out.msgs))]
    /\ UNCHANGED <<contract, now, balance, db>>

\* QueryMsg::BeaconsAsc and QueryMsg::BeaconsDesc: nothing is written.
QueryBeacons(start_after, limit, order) ==
    /\ contract = "nois-oracle"
    /\ last' = Call("query_beacons", "",
                    [order |-> order, limit |-> limit, start_after |-> start_after],
                    Response(NoError, db, <<>>, <<>>, NoAck),
                    Some(query_beacons(db, start_after, limit, order)))
    /\ UNCHANGED <<contract, now, balance, db, gw, hist>>

\* The origin data a proxy of the gateway sends for a request that a proxy
\* of the oracle sends as sender and job id.
Origin(sender, job_id) == [job_id |-> job_id, sender |-> sender]

\* One request handed to both routing variants: receive_request_beacon of the
\* oracle and RequestRouter::route of the gateway. `last` holds the oracle's
\* response and, in ret, the gateway's receipt.
RequestBoth(channel, after, sender, job_id, max_jobs) ==
    /\ contract = "both"
    /\ LET oracle == receive_request_beacon(db, now, channel, after, sender, job_id)
           gateway == handle_drand(gw, now, channel, after, Origin(sender, job_id))
           round == round_after(after)
           job == [source_id |-> source_id_of(round), channel |-> channel,
                   origin |-> Origin(sender, job_id)]
       IN  /\ Accepted(round) < max_jobs
           /\ db' = oracle.db
           /\ gw' = gateway.db
           /\ last' = Call("request", "",
                           [after |-> after, job_id |-> job_id,
                            channel |-> channel, sender |-> sender], oracle,
                           Some([messages |-> gateway.messages, ack |-> gateway.ack]))
           /\ hist' = RecordRequest(round, job, gateway)
    /\ UNCHANGED <<contract, now, balance>>

\* One round handed to both: execute_add_round of the oracle with the round's
\* signature and new_drand of the gateway with the randomness derived from it.
SubmitBoth(sender, round, is_verifying_tx) ==
    /\ contract = "both"
    /\ LET info == [sender |-> sender, funds |-> <<>>]
           oracle == execute_add_round(db, now, balance, info, round,
                                       DrandSignature(round - 1), DrandSignature(round))
           gateway == new_drand(gw, now, round, derive_randomness(DrandSignature(round)),
                                is_verifying_tx)
       IN  /\ db' = oracle.db
           /\ gw' = gateway.db
           /\ last' = Call("submit", sender,
                           [round |-> round, is_verifying_tx |-> is_verifying_tx], oracle,
                           Some([messages |-> gateway.msgs,
                                 jobs_processed |-> gateway.jobs_processed,
                                 jobs_left |-> gateway.jobs_left]))
           /\ hist' = [hist EXCEPT !.drained = Extend(@, round, JobsOfMessages(gateway.msgs))]
           /\ balance' = balance - Paid(oracle.messages)
    /\ UNCHANGED <<contract, now>>

\* QueryMsg::Beacon, Bot, Submissions and JobStats: nothing is written.
Query(msg) ==
    /\ contract = "nois-oracle"
    /\ LET res == query(db, msg)
       IN  last' = [Call("query", "", msg, Response(res.err, db, <<>>, <<>>, NoAck), res.ret)
                       EXCEPT !.err = res.err]
    /\ UNCHANGED <<contract, now, balance, db, gw, hist>>

\* The chain produces a block: the block time of later calls is later.
AdvanceTime ==
    /\ now[1] < MOCK_ENV_SECONDS + 5 * MaxBlocks
    /\ now' = plus_seconds(now, 5)
    /\ last' = NoCall
    /\ UNCHANGED <<contract, balance, db, gw, hist>>

\* The bank module: the contract is funded, or its funds are spent.
SetBalance(amount) ==
    /\ amount # balance
    /\ balance' = amount
    /\ last' = NoCall
    /\ UNCHANGED <<contract, now, db, gw, hist>>

(***************************************************************************)
(* Inputs                                                                  *)
(***************************************************************************)
RoundA == round_after(<<1660941090 - 1, 0>>)
AfterA == <<1660941090 - 1, 0>>
AfterB == <<1660941120 - 1, 0>>
RoundB == round_after(AfterB)

Good(round) ==
    [round |-> round, previous_signature |-> DrandSignature(round - 1),
     signature |-> DrandSignature(round)]
\* The signatures of the round before, submitted for `round`.
WrongRound(round) ==
    [round |-> round, previous_signature |-> DrandSignature(round - 2),
     signature |-> DrandSignature(round - 1)]
WrongPrevious(round) ==
    [round |-> round, previous_signature |-> BrokenSignature,
     signature |-> DrandSignature(round)]
Broken(round) ==
    [round |-> round, previous_signature |-> DrandSignature(round - 1),
     signature |-> BrokenSignature]

NoFunds == <<>>
SomeFunds == <<[amount |-> 1, denom |-> INCENTIVE_DENOM]>>

Undecodable == [after |-> <<0, 0>>, job_id |-> "", sender |-> "", decodes |-> FALSE]
Request(after, sender, job_id) ==
    [after |-> after, job_id |-> job_id, sender |-> sender, decodes |-> TRUE]

Balances == {INCENTIVE_AMOUNT - 1, INCENTIVE_AMOUNT}

InitOracle ==
    /\ contract = "nois-oracle"
    /\ now = <<MOCK_ENV_SECONDS, 879305533>>
    /\ balance = INCENTIVE_AMOUNT - 1
    /\ db = instantiate(TESTING_MIN_ROUND, INCENTIVE_AMOUNT, INCENTIVE_DENOM)
    /\ gw = gateway_instantiate
    /\ last = NoCall
    /\ hist = NoHistory

InitGateway ==
    /\ contract = "nois-gateway"
    /\ now = <<MOCK_ENV_SECONDS, 879305533>>
    /\ balance = 0
    /\ db = instantiate(TESTING_MIN_ROUND, INCENTIVE_AMOUNT, INCENTIVE_DENOM)
    /\ gw = gateway_instantiate
    /\ last = NoCall
    /\ hist = NoHistory

(***************************************************************************)
(* Spec: submissions to the oracle. Two bots, the first of which registers *)
(* and is put on and taken off the whitelist, one round at or above the    *)
(* floor and the round just below it, requests that differ in nothing.     *)
(***************************************************************************)
Bots == {"bot1", "bot2"}
SubmissionInputs ==
    {Good(RoundA), WrongRound(RoundA), WrongPrevious(RoundA), Broken(RoundA),
     Good(TESTING_MIN_ROUND - 1)}
Monikers == {"Best Bot", ""}

Init == InitOracle

Next ==
    \/ \E sender \in Bots, s \in SubmissionInputs :
          AddRound(sender, NoFunds, s.round, s.previous_signature, s.signature)
    \/ \E sender \in Bots :
          AddRound(sender, SomeFunds, RoundA, DrandSignature(RoundA - 1), DrandSignature(RoundA))
    \/ PacketReceive("channel-1", Request(AfterA, "my_dapp", "job 1"), MaxJobs)
    \/ \E moniker \in Monikers : RegisterBot("bot1", moniker)
    \/ UpdateWhitelistBots("creator", <<"bot1">>, <<>>)
    \/ UpdateWhitelistBots("creator", <<>>, <<"bot1">>)
    \/ AdvanceTime
    \/ SetBalance(INCENTIVE_AMOUNT)

Spec == Init /\ [][Next]_vars

(***************************************************************************)
(* SpecBatch: one round, requests that differ in nothing, and four         *)
(* submitters that are not registered (add_round_processes_jobs).          *)
(***************************************************************************)
BatchBots == {"anon1", "anon2", "anon3", "anon4"}

NextBatch ==
    \/ \E sender \in BatchBots :
          AddRound(sender, NoFunds, RoundA, DrandSignature(RoundA - 1), DrandSignature(RoundA))
    \/ PacketReceive("foo", Request(AfterA, "my_dapp", "test"), BatchJobs)

SpecBatch == InitOracle /\ [][NextBatch]_vars

(***************************************************************************)
(* SpecQueue: requests and drains, of the oracle or of the gateway's       *)
(* router. The requests differ in channel and job, and some are malformed. *)
(***************************************************************************)
QueueBots == {"bot1", "bot2"}
QueuePackets ==
    {[channel |-> "channel-1", data |-> Request(AfterA, "my_dapp", "job 1")],
     [channel |-> "channel-2", data |-> Request(AfterA, "your_dapp", "job 2")],
     [channel |-> "channel-1", data |-> Request(AfterA, "my_dapp", "")],
     [channel |-> "channel-1", data |-> Undecodable]}
QueueOrigins ==
    {[channel |-> "channel-1", origin |-> "origin 1"],
     [channel |-> "channel-2", origin |-> "origin 2"]}
Randomnesses == {derive_randomness(DrandSignature(RoundA)), derive_randomness(BrokenSignature)}

InitQueue == InitOracle \/ InitGateway

NextQueue ==
    \/ \E sender \in QueueBots :
          AddRound(sender, NoFunds, RoundA, DrandSignature(RoundA - 1), DrandSignature(RoundA))
    \/ AddRound("bot1", NoFunds, RoundB, DrandSignature(RoundB - 1), DrandSignature(RoundB))
    \/ \E p \in QueuePackets : PacketReceive(p.channel, p.data, MaxQueue)
    \/ PacketReceive("channel-1", Request(AfterB, "my_dapp", "job 3"), MaxOther)
    \/ \E o \in QueueOrigins : Route(o.channel, AfterA, o.origin, MaxQueue)
    \/ Route("channel-1", AfterB, "origin 3", MaxOther)
    \/ \E randomness \in Randomnesses, is_verifying_tx \in BOOLEAN :
          NewDrand(RoundA, randomness, is_verifying_tx)
    \/ NewDrand(RoundB, derive_randomness(DrandSignature(RoundB)), TRUE)

SpecQueue == InitQueue /\ [][NextQueue]_vars

(***************************************************************************)
(* SpecIncentive: seven bots submit one round. The bots arrive in the      *)
(* order of their numbers, any of them may stay away; three of them        *)
(* register and are put on and taken off the whitelist.                    *)
(***************************************************************************)
IncentiveBots ==
    <<"registered_bot1", "registered_bot2", "registered_bot3", "registered_bot4",
      "registered_bot5", "registered_bot6", "registered_bot7">>
ManagedBots == {"registered_bot1", "registered_bot6", "registered_bot7"}

\* No bot with a higher number has submitted the round.
ArrivesInOrder(i, round) ==
    \A j \in DOMAIN IncentiveBots :
        j > i => ~has(db.SUBMISSIONS, <<round, IncentiveBots[j]>>)

NextIncentive ==
    \/ \E i \in DOMAIN IncentiveBots :
          /\ ArrivesInOrder(i, TESTING_MIN_ROUND)
          /\ AddRound(IncentiveBots[i], NoFunds, TESTING_MIN_ROUND,
                      DrandSignature(TESTING_MIN_ROUND - 1), DrandSignature(TESTING_MIN_ROUND))
    \/ \E bot \in ManagedBots : RegisterBot(bot, "Best Bot")
    \/ \E bot \in ManagedBots : UpdateWhitelistBots("creator", <<bot>>, <<>>)
    \/ \E bot \in ManagedBots : UpdateWhitelistBots("creator", <<>>, <<bot>>)
    \/ \E amount \in Balances : SetBalance(amount)

SpecIncentive == InitOracle /\ [][NextIncentive]_vars

(***************************************************************************)
(* SpecNoWhitelist: only_top_x_bots_receive_incentive. The contract holds  *)
(* a hundred incentives, bots register, the seven submit one round in the  *)
(* order of their numbers, and the whitelist is never updated.             *)
(***************************************************************************)
InitFunded ==
    /\ contract = "nois-oracle"
    /\ now = <<MOCK_ENV_SECONDS, 879305533>>
    /\ balance = TESTING_BALANCE
    /\ db = instantiate(TESTING_MIN_ROUND, INCENTIVE_AMOUNT, INCENTIVE_DENOM)
    /\ gw = gateway_instantiate
    /\ last = NoCall
    /\ hist = NoHistory

NextNoWhitelist ==
    \/ \E i \in DOMAIN IncentiveBots :
          /\ ArrivesInOrder(i, TESTING_MIN_ROUND)
          /\ AddRound(IncentiveBots[i], NoFunds, TESTING_MIN_ROUND,
                      DrandSignature(TESTING_MIN_ROUND - 1), DrandSignature(TESTING_MIN_ROUND))
    \/ \E bot \in ManagedBots : RegisterBot(bot, "Best Bot")

SpecNoWhitelist == InitFunded /\ [][NextNoWhitelist]_vars

(***************************************************************************)
(* SpecGate: the checks of add_round. Two senders, with and without        *)
(* attached funds, submit the round below the floor, the floor and the     *)
(* round above it, with signatures that verify and signatures that do not. *)
(***************************************************************************)
GateSenders == {"anyone", "someone"}
GateRounds == {TESTING_MIN_ROUND - 1, TESTING_MIN_ROUND, TESTING_MIN_ROUND + 1}
GateInputs ==
    UNION {{Good(round), WrongRound(round), WrongPrevious(round), Broken(round)} :
              round \in GateRounds}

NextGate ==
    \E sender \in GateSenders, funds \in {NoFunds, SomeFunds}, s \in GateInputs :
        AddRound(sender, funds, s.round, s.previous_signature, s.signature)

SpecGate == InitOracle /\ [][NextGate]_vars

(***************************************************************************)
(* SpecRound: requests to the oracle or to the gateway's router whose      *)
(* `after` lies before, at and after the genesis and the first tick after  *)
(* it (commit_to_drand_round_works).                                       *)
(***************************************************************************)
RoundAfters ==
    {<<0, 0>>,
     <<DRAND_GENESIS - 1, 999999999>>,
     <<DRAND_GENESIS, 0>>,
     <<DRAND_GENESIS, 1>>,
     <<DRAND_GENESIS + 29, 0>>,
     <<DRAND_GENESIS + DRAND_ROUND_LENGTH - 1, 999999999>>,
     <<DRAND_GENESIS + DRAND_ROUND_LENGTH, 0>>,
     <<DRAND_GENESIS + 31, 0>>}

NextRound ==
    \/ \E after \in RoundAfters :
          PacketReceive("channel-1", Request(after, "my_dapp", "job 1"), MaxRequests)
    \/ \E after \in RoundAfters :
          Route("channel-1", after, "origin 1", MaxRequests)

SpecRound == InitQueue /\ [][NextRound]_vars

(***************************************************************************)
(* SpecOrder: three submitters whose address order is not their order of   *)
(* arrival, two rounds, two block times (query_submissions_works).         *)
(***************************************************************************)
OrderBots == {"beta1", "gamma2", "alpha3"}
OrderRounds == {RoundA, RoundB}

NextOrder ==
    \/ \E sender \in OrderBots, round \in OrderRounds :
          AddRound(sender, NoFunds, round, DrandSignature(round - 1), DrandSignature(round))
    \/ AdvanceTime

SpecOrder == InitOracle /\ [][NextOrder]_vars

(***************************************************************************)
(* SpecWhitelist: the instantiator and another account update the          *)
(* whitelist; two bots register and submit one round.                      *)
(***************************************************************************)
WhitelistSenders == {"creator", "anyone"}
WhitelistBots == {"bot1", "bot2"}
BotLists == {<<>>, <<"bot1">>, <<"bot2">>, <<"bot1", "bot2">>}

NextWhitelist ==
    \/ \E sender \in WhitelistSenders, bots_to_whitelist \in BotLists, bots_to_dewhitelist \in BotLists :
          UpdateWhitelistBots(sender, bots_to_whitelist, bots_to_dewhitelist)
    \/ \E sender \in WhitelistBots : RegisterBot(sender, "Best Bot")
    \/ \E sender \in WhitelistBots :
          AddRound(sender, NoFunds, RoundA, DrandSignature(RoundA - 1), DrandSignature(RoundA))
    \/ SetBalance(INCENTIVE_AMOUNT)

SpecWhitelist == InitOracle /\ [][NextWhitelist]_vars

(***************************************************************************)
(* SpecProgress: a round with more queued jobs than one submission drains, *)
(* three submitters for it, and around them the other operations: requests *)
(* for the round and for another one, a submission for the other round,    *)
(* registration and whitelisting.                                          *)
(***************************************************************************)
ProgressBots == {"bot1", "bot2", "bot3"}

NextProgress ==
    \/ \E sender \in ProgressBots :
          AddRound(sender, NoFunds, RoundA, DrandSignature(RoundA - 1), DrandSignature(RoundA))
    \/ AddRound("bot1", NoFunds, RoundB, DrandSignature(RoundB - 1), DrandSignature(RoundB))
    \/ AddRound("bot1", NoFunds, RoundA, DrandSignature(RoundA), DrandSignature(RoundA))
    \/ PacketReceive("channel-1", Request(AfterA, "my_dapp", "job 1"), ProgressJobs)
    \/ PacketReceive("channel-1", Request(AfterB, "my_dapp", "job 3"), MaxOther)
    \/ RegisterBot("bot1", "Best Bot")
    \/ UpdateWhitelistBots("creator", <<"bot1">>, <<>>)
    \/ UpdateWhitelistBots("creator", <<>>, <<"bot1">>)

SpecProgress == InitOracle /\ [][NextProgress]_vars

(***************************************************************************)
(* SpecRegister: two bots register, change their moniker or send a         *)
(* malformed one, and submit two rounds; one of them is whitelisted; jobs  *)
(* are requested (register_bot_works_for_updates).                         *)
(***************************************************************************)
RegisterBots == {"bot1", "bot2"}
RegisterMonikers == {"Nickname1", "Another nickname", ""}

NextRegister ==
    \/ \E sender \in RegisterBots, moniker \in RegisterMonikers : RegisterBot(sender, moniker)
    \/ \E sender \in RegisterBots, round \in {RoundA, RoundB} :
          AddRound(sender, NoFunds, round, DrandSignature(round - 1), DrandSignature(round))
    \/ UpdateWhitelistBots("creator", <<"bot1">>, <<>>)
    \/ PacketReceive("channel-1", Request(AfterA, "my_dapp", "job 1"), MaxOther)

SpecRegister == InitOracle /\ [][NextRegister]_vars

(***************************************************************************)
(* SpecUnregistered: the contract holds a hundred incentives; a bot that   *)
(* never registers and one that does submit a round with queued jobs, and  *)
(* either may be on the whitelist (unregistered_bot_does_not_get_incentives,*)
(* unregistered_bot_can_add_round).                                        *)
(***************************************************************************)
UnregisteredBots == {"unregistered_bot", "registered_bot"}

NextUnregistered ==
    \/ \E sender \in UnregisteredBots, round \in {RoundA, RoundB} :
          AddRound(sender, NoFunds, round, DrandSignature(round - 1), DrandSignature(round))
    \/ RegisterBot("registered_bot", "Best Bot")
    \/ \E bot \in UnregisteredBots : UpdateWhitelistBots("creator", <<bot>>, <<>>)
    \/ PacketReceive("channel-1", Request(AfterA, "my_dapp", "job 1"), MaxJobs)

SpecUnregistered == InitFunded /\ [][NextUnregistered]_vars

(***************************************************************************)
(* SpecRouter: the gateway's router with more queued jobs than the larger  *)
(* cap; the round is announced with and without verification.              *)
(***************************************************************************)
NextRouter ==
    \/ Route("channel-1", AfterA, "origin 1", RouterJobs)
    \/ \E is_verifying_tx \in BOOLEAN :
          NewDrand(RoundA, derive_randomness(DrandSignature(RoundA)), is_verifying_tx)

SpecRouter == InitGateway /\ [][NextRouter]_vars

(***************************************************************************)
(* SpecDelivery: requests on two channels, of the oracle or of the         *)
(* gateway's router; those on the second channel arrive in the first block *)
(* only, so that one delivered in a later block has waited in the queue.   *)
(* The round is submitted or announced in the first block or in a later    *)
(* one.                                                                    *)
(***************************************************************************)
EarlyPacket == [channel |-> "channel-2", data |-> Request(AfterA, "your_dapp", "job 2")]
EarlyOrigin == [channel |-> "channel-2", origin |-> "origin 2"]

NextDelivery ==
    \/ PacketReceive("channel-1", Request(AfterA, "my_dapp", "job 1"), MaxQueue)
    \/ /\ now[1] = MOCK_ENV_SECONDS
       /\ PacketReceive(EarlyPacket.channel, EarlyPacket.data, MaxQueue)
    \/ Route("channel-1", AfterA, "origin 1", MaxQueue)
    \/ /\ now[1] = MOCK_ENV_SECONDS
       /\ Route(EarlyOrigin.channel, AfterA, EarlyOrigin.origin, MaxQueue)
    \/ \E sender \in QueueBots :
          AddRound(sender, NoFunds, RoundA, DrandSignature(RoundA - 1), DrandSignature(RoundA))
    \/ \E is_verifying_tx \in BOOLEAN :
          NewDrand(RoundA, derive_randomness(DrandSignature(RoundA)), is_verifying_tx)
    \/ AdvanceTime

SpecDelivery == InitQueue /\ [][NextDelivery]_vars

(***************************************************************************)
(* SpecBeacons: the archive is listed in both orders, with and without     *)
(* cursor and limit. Every other round from the floor on is submitted, in  *)
(* order, so that there are cursors between archived rounds; the archive   *)
(* starts empty and grows to a few rounds, or starts one round short of    *)
(* the largest one, which has more rounds than the default limit.          *)
(***************************************************************************)
NthRound(n) == TESTING_MIN_ROUND + 2 * n

\* The storage after the first n of these rounds were submitted by one
\* unregistered sender in the first block.
Populated(n) ==
    LET rounds == {NthRound(k) : k \in 0..(n - 1)}
        blocktime == <<MOCK_ENV_SECONDS, 879305533>>
    IN  [instantiate(TESTING_MIN_ROUND, INCENTIVE_AMOUNT, INCENTIVE_DENOM) EXCEPT
            !.BEACONS = [round \in rounds |->
                [randomness |-> derive_randomness(DrandSignature(round)),
                 verified |-> blocktime]],
            !.SUBMISSIONS = [k \in {<<round, "anyone">> : round \in rounds} |->
                [time |-> blocktime]],
            !.SUBMISSIONS_ORDER = [k \in {<<round, 0>> : round \in rounds} |-> "anyone"]]

InitBeacons ==
    /\ contract = "nois-oracle"
    /\ now = <<MOCK_ENV_SECONDS, 879305533>>
    /\ balance = 0
    /\ db \in {Populated(0), Populated(MaxBeacons - 1)}
    /\ gw = gateway_instantiate
    /\ last = NoCall
    /\ hist = NoHistory

\* The queries of query_beacons_asc_works and query_beacons_desc_works, with
\* cursors at, between, below and above archived rounds, and limits below
\* and above the default.
AscQueries ==
    {[limit |-> None, start_after |-> None],
     [limit |-> Some(2), start_after |-> None],
     [limit |-> Some(101), start_after |-> None],
     [limit |-> None, start_after |-> Some(0)],
     [limit |-> None, start_after |-> Some(TESTING_MIN_ROUND)],
     [limit |-> Some(0), start_after |-> Some(TESTING_MIN_ROUND)],
     [limit |-> Some(2), start_after |-> Some(TESTING_MIN_ROUND + 1)],
     [limit |-> None, start_after |-> Some(TESTING_MIN_ROUND + 1)],
     [limit |-> None, start_after |-> Some(NthRound(MaxBeacons - 1))]}
DescQueries ==
    {[limit |-> None, start_after |-> None],
     [limit |-> Some(2), start_after |-> None],
     [limit |-> Some(101), start_after |-> None],
     [limit |-> None, start_after |-> Some(99999)],
     [limit |-> None, start_after |-> Some(NthRound(MaxBeacons - 1))],
     [limit |-> Some(0), start_after |-> Some(NthRound(MaxBeacons - 1))],
     [limit |-> Some(2), start_after |-> Some(TESTING_MIN_ROUND + 1)],
     [limit |-> None, start_after |-> Some(TESTING_MIN_ROUND + 1)],
     [limit |-> None, start_after |-> Some(TESTING_MIN_ROUND)]}

NextBeacons ==
    \/ LET n == Cardinality(DOMAIN db.BEACONS)
       IN  /\ n < SmallArchive \/ (SmallArchive < n /\ n < MaxBeacons)
           /\ AddRound("anyone", NoFunds, NthRound(n),
                       DrandSignature(NthRound(n) - 1), DrandSignature(NthRound(n)))
    \/ \E q \in AscQueries : QueryBeacons(q.start_after, q.limit, "Ascending")
    \/ \E q \in DescQueries : QueryBeacons(q.start_after, q.limit, "Descending")

SpecBeacons == InitBeacons /\ [][NextBeacons]_vars

(***************************************************************************)
(* SpecQuery: two bots, one of which registers, submit two rounds, a       *)
(* request arrives for the first, and the point queries are asked for      *)
(* present and absent keys (query_submissions_works, query_job_stats_works).*)
(***************************************************************************)
QueryBots == {"bot1", "bot2"}
QueryRounds == {RoundA, RoundB}
QueryMsgs ==
    {[round |-> round, type |-> "Beacon"] : round \in QueryRounds}
    \cup {[round |-> round, type |-> "Submissions"] : round \in QueryRounds}
    \cup {[round |-> round, type |-> "JobStats"] : round \in QueryRounds}
    \cup {[type |-> "Bot", address |-> address] : address \in QueryBots \cup {""}}

NextQuery ==
    \/ \E sender \in QueryBots, round \in QueryRounds :
          AddRound(sender, NoFunds, round, DrandSignature(round - 1), DrandSignature(round))
    \/ RegisterBot("bot1", "Best Bot")
    \/ PacketReceive("channel-1", Request(AfterA, "my_dapp", "job 1"), MaxOther)
    \/ \E msg \in QueryMsgs : Query(msg)

SpecQuery == InitOracle /\ [][NextQuery]_vars

(***************************************************************************)
(* SpecAgree: the oracle and the gateway side by side. Every request and   *)
(* every round is handed to both; requests come from two proxies, one job  *)
(* identifier is malformed, and the gateway is called from a verifying and *)
(* from a non-verifying transaction.                                       *)
(***************************************************************************)
AgreeBots == {"bot1", "bot2"}
AgreeRounds == {RoundA, RoundB}
AgreeRequests ==
    {[job_id |-> "job 1", channel |-> "channel-1", sender |-> "my_dapp"],
     [job_id |-> "job 2", channel |-> "channel-2", sender |-> "your_dapp"],
     [job_id |-> "", channel |-> "channel-1", sender |-> "my_dapp"]}

InitAgree ==
    /\ contract = "both"
    /\ now = <<MOCK_ENV_SECONDS, 879305533>>
    /\ balance = INCENTIVE_AMOUNT - 1
    /\ db = instantiate(TESTING_MIN_ROUND, INCENTIVE_AMOUNT, INCENTIVE_DENOM)
    /\ gw = gateway_instantiate
    /\ last = NoCall
    /\ hist = NoHistory

NextAgree ==
    \/ \E r \in AgreeRequests : RequestBoth(r.channel, AfterA, r.sender, r.job_id, MaxQueue - 1)
    \/ RequestBoth("channel-1", AfterB, "my_dapp", "job 3", MaxOther)
    \/ \E sender \in AgreeBots, is_verifying_tx \in BOOLEAN :
          SubmitBoth(sender, RoundA, is_verifying_tx)
    \/ SubmitBoth("bot1", RoundB, TRUE)

SpecAgree == InitAgree /\ [][NextAgree]_vars

(***************************************************************************)
(* SpecPayments: the contract holds a hundred incentives and seven bots    *)
(* submit one round in the order of their numbers, any of them may stay    *)
(* away. Before the first submission the bots with the highest numbers     *)
(* register; all seven are put on the whitelist at any time.               *)
(***************************************************************************)
\* Every bot with a higher number is registered and nothing is submitted.
RegistersInTurn(i) ==
    /\ db.SUBMISSIONS = EmptyMap
    /\ \A j \in DOMAIN IncentiveBots : j > i => has(db.BOTS, IncentiveBots[j])

NextPayments ==
    \/ \E i \in DOMAIN IncentiveBots :
          /\ ArrivesInOrder(i, TESTING_MIN_ROUND)
          /\ AddRound(IncentiveBots[i], NoFunds, TESTING_MIN_ROUND,
                      DrandSignature(TESTING_MIN_ROUND - 1), DrandSignature(TESTING_MIN_ROUND))
    \/ \E i \in DOMAIN IncentiveBots :
          /\ RegistersInTurn(i)
          /\ RegisterBot(IncentiveBots[i], "Best Bot")
    \/ UpdateWhitelistBots("creator", IncentiveBots, <<>>)

SpecPayments == InitFunded /\ [][NextPayments]_vars

(***************************************************************************)
(* SpecEventual: requests are queued for a round, two bots submit it,      *)
(* and some submissions are refused. Fairness: as long as a bot has not    *)
(* submitted the round, a valid submission of the round by such a bot      *)
(* arrives eventually.                                                     *)
(***************************************************************************)
\* A valid submission of the round by a bot that has none for it: AddRound
\* of that bot, with the response bound once.
NewSubmission(round) ==
    \E sender \in QueueBots :
        /\ ~has(db.SUBMISSIONS, <<round, sender>>)
        /\ contract = "nois-oracle"
        /\ \E res \in {execute_add_round(db, now, balance, [sender |-> sender, funds |-> NoFunds], round, DrandSignature(round - 1), DrandSignature(round))} :
              /\ db' = res.db
              /\ last' = Call("add_round", sender,
                              [round |-> round, previous_signature |-> DrandSignature(round - 1),
                               signature |-> DrandSignature(round),
                               funds |-> NoFunds], res, None)
              /\ hist' = [hist EXCEPT !.drained = Extend(@, round, JobsOfMessages(res.messages))]
              /\ balance' = balance - Paid(res.messages)
        /\ UNCHANGED <<contract, now, gw>>

NextEventual ==
    \/ \E sender \in QueueBots :
          AddRound(sender, NoFunds, RoundA, DrandSignature(RoundA - 1), DrandSignature(RoundA))
    \/ AddRound("bot1", NoFunds, RoundA, DrandSignature(RoundA), DrandSignature(RoundA))
    \/ PacketReceive("channel-1", Request(AfterA, "my_dapp", "job 1"), MaxQueue)

SpecEventual ==
    /\ InitOracle
    /\ [][NextEventual]_vars
    /\ WF_vars(NewSubmission(RoundA))

(***************************************************************************)
(* Claims                                                                  *)
(***************************************************************************)
IsAddRound(call) == call.op = "add_round"
Succeeded(call) == call.err = NoError

\* The index under which SUBMISSIONS_ORDER holds `sender` for `round`.
IndexOf(d, round, sender) ==
    CHOOSE i \in 0..Cardinality(DOMAIN d.SUBMISSIONS_ORDER) :
        /\ <<round, i>> \in DOMAIN d.SUBMISSIONS_ORDER
        /\ d.SUBMISSIONS_ORDER[<<round, i>>] = sender

\* C1: write-once archive. A beacon stored for a round is never removed, and
\* no later call (a later successful add_round for the round, by another
\* submitter, at a later block time) changes its randomness or its verified
\* time.
C1_WriteOnceArchive ==
    [][\A round \in DOMAIN db.BEACONS :
          /\ round \in DOMAIN db'.BEACONS
          /\ db'.BEACONS[round] = db.BEACONS[round]]_vars

\* A second submitter has added the round in a later block, and the beacon
\* carries the time of the first.
C1_Witness ==
    /\ IsAddRound(last) /\ Succeeded(last)
    /\ last.args.round = RoundA
    /\ next_index(db, RoundA) = 2
    /\ db.SUBMISSIONS[<<RoundA, last.sender>>].time = now
    /\ TimestampLess(db.BEACONS[RoundA].verified, now)

\* C2 as claimed: whatever a submitter who has a submission for the round
\* sends in a further add_round for it, the call fails with SubmissionExists.
C2_AnyDuplicateFailsWithSubmissionExists ==
    [][(IsAddRound(last') /\ has(db.SUBMISSIONS, <<last'.args.round, last'.sender>>))
          => /\ last'.err = SubmissionExists
             /\ last'.messages = <<>>
             /\ db' = db]_vars

\* C2 as amended: a further add_round of a submitter for a round it has a
\* submission for always fails, emits nothing and changes nothing; the error
\* is SubmissionExists when the call attaches no funds and its signatures
\* verify, and the error of the earlier check otherwise.
C2_DuplicateSubmissionRejected ==
    [][(IsAddRound(last') /\ has(db.SUBMISSIONS, <<last'.args.round, last'.sender>>))
          => /\ ~Succeeded(last')
             /\ last'.messages = <<>>
             /\ db' = db
             /\ hist' = hist
             /\ (/\ last'.args.funds = <<>>
                 /\ verify(last'.args.round, last'.args.previous_signature,
                           last'.args.signature))
                   => last'.err = SubmissionExists]_vars

\* A registered bot whose round was counted sent the round again, while jobs
\* of the round were still queued.
C2_Witness ==
    /\ IsAddRound(last)
    /\ last.err = SubmissionExists
    /\ has(db.BOTS, last.sender)
    /\ db.BOTS[last.sender].rounds_added = 1
    /\ unprocessed_jobs_len(db, last.args.round) > 0

\* C3: submission atomicity. An add_round that returns an error leaves the
\* storage as it was (beacons, submissions, order, bots, queue, processed
\* counter) and emits no message.
C3_FailedAddRoundChangesNothing ==
    [][(IsAddRound(last') /\ ~Succeeded(last'))
          => /\ db' = db
             /\ hist' = hist
             /\ last'.messages = <<>>]_vars

\* An invalid signature was rejected from a registered bot while a job waits
\* for the round.
C3_Witness ==
    /\ IsAddRound(last)
    /\ last.err = InvalidSignature
    /\ has(db.BOTS, last.sender)
    /\ unprocessed_jobs_len(db, last.args.round) > 0

\* C4 (bounded batch): a successful add_round for a round with n queued jobs
\* emits exactly min(3, n) delivery messages and leaves n - min(3, n) jobs in
\* the queue, which JobStats reports as unprocessed; when 7 jobs were queued,
\* the first four successful submissions drain 3, 3, 1 and 0 of them.
C4_BoundedBatch ==
    [][(IsAddRound(last') /\ Succeeded(last')) =>
          LET round == last'.args.round
              n == unprocessed_jobs_len(db, round)
              drained == Len(IbcMessages(last'.messages))
              submission == next_index(db', round)
          IN  /\ drained = Min2(3, n)
              /\ unprocessed_jobs_len(db', round) = n - Min2(3, n)
              /\ query_job_stats(db', round).unprocessed = n - Min2(3, n)
              /\ (Len(SeqAt(hist'.enqueued, round)) = 7 /\ submission <= 4)
                    => drained = <<3, 3, 1, 0>>[submission]]_vars

\* Seven jobs were queued and the third submission has drained the last one.
C4_Witness ==
    /\ IsAddRound(last) /\ Succeeded(last)
    /\ Len(SeqAt(hist.enqueued, RoundA)) = 7
    /\ next_index(db, RoundA) = 3
    /\ Len(IbcMessages(last.messages)) = 1
    /\ query_job_stats(db, RoundA) = [round |-> RoundA, unprocessed |-> 0, processed |-> 7]

\* The queue of a round, of the oracle or of the gateway's router.
Queue(round) ==
    IF contract = "nois-oracle"
    THEN unprocessed_jobs(db, round)
    ELSE unprocessed_drand_jobs(gw, round)

\* The same queue after the step.
QueueAfter(round) ==
    IF contract = "nois-oracle"
    THEN unprocessed_jobs(db', round)
    ELSE unprocessed_drand_jobs(gw', round)

IsDrain(call) == call.op \in {"add_round", "new_drand"} /\ call.err = NoError
IsRequest(call) == call.op \in {"ibc_packet_receive", "route"}

\* C5 (queue is FIFO): for every round, the jobs dispatched by the drains so
\* far, in the order of their messages, followed by the jobs still queued,
\* are the jobs that were queued, in the order of their requests.
C5_QueueIsFifo ==
    \A round \in DOMAIN hist.enqueued :
        SeqAt(hist.drained, round) \o Queue(round) = hist.enqueued[round]

\* J1, J2, J3, two of them different, drained under a cap of 2 as J1, J2
\* and then J3.
C5_Witness ==
    /\ last.op = "new_drand" /\ last.args.is_verifying_tx
    /\ Len(SeqAt(hist.enqueued, RoundA)) = 3
    /\ hist.enqueued[RoundA][1] # hist.enqueued[RoundA][2]
    /\ JobsOfMessages(last.messages) = <<hist.enqueued[RoundA][3]>>
    /\ SeqAt(hist.drained, RoundA) = hist.enqueued[RoundA]
    /\ Queue(RoundA) = <<>>

Occurrences(job, jobs) == Cardinality({i \in DOMAIN jobs : jobs[i] = job})

\* C6 (exactly-once dispatch): a queue changes only by a request appending its
\* job, without a message, or by a drain removing from the front exactly the
\* jobs whose delivery messages it emits; and no job has more delivery
\* messages than accepted requests.
C6_ExactlyOnceDispatch ==
    [][\A round \in {RoundA, RoundB} :
          LET before == Queue(round)
              after == QueueAfter(round)
              delivered == SeqAt(hist'.drained, round) \o SeqAt(hist'.served, round)
          IN  /\ after # before =>
                    \/ /\ IsRequest(last') /\ last'.ack.kind = "Queued"
                       /\ last'.messages = <<>>
                       /\ Len(after) = Len(before) + 1
                       /\ SubSeq(after, 1, Len(before)) = before
                    \/ /\ IsDrain(last') /\ last'.args.round = round
                       /\ before = JobsOfMessages(last'.messages) \o after
              /\ IsDrain(last') /\ last'.args.round = round =>
                    before = JobsOfMessages(last'.messages) \o after
              /\ \A i \in DOMAIN delivered :
                    Occurrences(delivered[i], delivered)
                       <= Occurrences(delivered[i], SeqAt(hist'.accepted, round))]_vars

\* A submission to the oracle has drained its cap of jobs and left some queued.
C6_Witness ==
    /\ IsAddRound(last) /\ Succeeded(last)
    /\ Len(JobsOfMessages(last.messages)) = MAX_JOBS_PER_SUBMISSION
    /\ JobsOfMessages(last.messages) = SubSeq(hist.enqueued[RoundA], 1, MAX_JOBS_PER_SUBMISSION)
    /\ Queue(RoundA) # <<>>
    /\ \E i, j \in DOMAIN hist.enqueued[RoundA] :
          hist.enqueued[RoundA][i] # hist.enqueued[RoundA][j]

\* The request of a call, as (round, job), for either contract.
RequestRound(call) == round_after(IF call.op = "route" THEN call.args.after
                                  ELSE call.args.data.after)
RequestJob(call) ==
    IF call.op = "route"
    THEN [source_id |-> source_id_of(RequestRound(call)), channel |-> call.args.channel,
          origin |-> call.args.origin]
    ELSE [source_id |-> source_id_of(RequestRound(call)), job_id |-> call.args.data.job_id,
          channel |-> call.args.channel_id, sender |-> call.args.data.sender]
IsValidRequest(call) ==
    \/ call.op = "route"
    \/ call.op = "ibc_packet_receive" /\ call.args.data.decodes /\ call.args.data.job_id # ""
Archived(round) ==
    IF contract = "nois-oracle" THEN has(db.BEACONS, round) ELSE has(gw.ARCHIVE, round)

\* C7 (request routing): a valid request for a round whose randomness is
\* archived is acknowledged Processed with exactly one delivery message, for
\* its own job, and no queue changes; one for a round that is not archived is
\* acknowledged Queued with no message and its job is appended to the queue
\* of that round.
C7_RequestRouting ==
    [][(IsRequest(last') /\ IsValidRequest(last')) =>
          LET round == RequestRound(last')
              job == RequestJob(last')
          IN  IF Archived(round)
              THEN /\ last'.ack = AckProcessed(source_id_of(round))
                   /\ Len(last'.messages) = 1
                   /\ IsIbcSend(last'.messages[1])
                   /\ JobOfMessage(last'.messages[1]) = job
                   /\ \A r \in {RoundA, RoundB} : QueueAfter(r) = Queue(r)
              ELSE /\ last'.ack = AckQueued(source_id_of(round))
                   /\ last'.messages = <<>>
                   /\ QueueAfter(round) = Append(Queue(round), job)]_vars

\* A request is served at once while older jobs of its round are still queued.
C7_Witness ==
    /\ IsRequest(last) /\ last.ack.kind = "Processed"
    /\ Queue(RequestRound(last)) # <<>>
    /\ Len(last.messages) = 1

\* C8 (IBC receive never fails the packet): ibc_packet_receive returns no
\* error; a packet that does not decode or whose job id is invalid gets an
\* error acknowledgement, no message, and leaves the state as it was.
C8_PacketReceiveNeverFails ==
    [][last'.op = "ibc_packet_receive" =>
          /\ last'.err = NoError
          /\ ~IsValidRequest(last') =>
                /\ last'.ack.kind = "Error"
                /\ last'.messages = <<>>
                /\ db' = db /\ hist' = hist]_vars

\* A request with an invalid job id for a round whose beacon is archived.
C8_Witness ==
    /\ last.op = "ibc_packet_receive"
    /\ last.ack = AckError(InvalidJobId)
    /\ has(db.BEACONS, RequestRound(last))
    /\ get_processed_jobs(db, RequestRound(last)) > 0

C10_RegisteredTopSixArePaid ==
    [][(/\ IsAddRound(last') /\ Succeeded(last')
        /\ last'.sender \in DOMAIN db.BOTS
        /\ db.WHITELIST = {}
        /\ balance >= db.CONFIG.incentive_amount
        /\ unprocessed_jobs_len(db, last'.args.round) = 0) =>
          last'.messages =
             IF next_index(db, last'.args.round) < 6
             THEN <<BankSend(last'.sender, incentive_amount(db.CONFIG))>>
             ELSE <<>>]_vars

\* A call of add_round that passes every check of execute_add_round.
IsAcceptable(call, d) ==
    /\ IsAddRound(call)
    /\ call.args.funds = <<>>
    /\ call.args.round >= d.CONFIG.min_round
    /\ call.args.signature = DrandSignature(call.args.round)
    /\ call.args.previous_signature = DrandSignature(call.args.round - 1)
    /\ <<call.args.round, call.sender>> \notin DOMAIN d.SUBMISSIONS

\* C11 (insufficient funds skip, not fail): when a registered, whitelisted
\* sender with a submission index below 6 submits a valid round while the
\* contract's balance is below the incentive amount, add_round succeeds, the
\* beacon is archived (the stored one is kept if there was one), the
\* submission is recorded, min(3, n) of the n queued jobs are delivered, and
\* no payment message is emitted.
C11_InsufficientFundsSkipsPayment ==
    [][(/\ IsAcceptable(last', db)
        /\ last'.sender \in DOMAIN db.BOTS
        /\ last'.sender \in db.WHITELIST
        /\ Cardinality({k \in DOMAIN db.SUBMISSIONS : k[1] = last'.args.round}) < 6
        /\ balance < db.CONFIG.incentive_amount) =>
          LET round == last'.args.round
              n == unprocessed_jobs_len(db, round)
          IN  /\ last'.err = NoError
              /\ round \in DOMAIN db'.BEACONS
              /\ round \in DOMAIN db.BEACONS => db'.BEACONS[round] = db.BEACONS[round]
              /\ db'.SUBMISSIONS[<<round, last'.sender>>] = [time |-> now]
              /\ Len(IbcMessages(last'.messages)) = Min2(3, n)
              /\ unprocessed_jobs_len(db', round) = n - Min2(3, n)
              /\ BankMessages(last'.messages) = <<>>
              /\ balance' = balance]_vars

\* An eligible bot has been promised the incentive, the balance is one unit
\* short, and its add_round has delivered three jobs and paid nothing.
C11_Witness ==
    /\ IsAddRound(last) /\ Succeeded(last)
    /\ last.sender \in DOMAIN db.BOTS
    /\ last.sender \in db.WHITELIST
    /\ IndexOf(db, last.args.round, last.sender) < 6
    /\ balance = db.CONFIG.incentive_amount - 1
    /\ \E i \in DOMAIN last.attributes : last.attributes[i][1] = "bot_incentive"
    /\ Len(IbcMessages(last.messages)) = 3
    /\ BankMessages(last.messages) = <<>>

\* C12 (round floor): add_round without funds for a round below min_round
\* fails with RoundTooLow carrying the submitted round and min_round, whether
\* or not its signatures verify; add_round for a round at or above min_round
\* never fails with RoundTooLow.
C12_RoundFloor ==
    [][IsAddRound(last') =>
          /\ (last'.args.funds = <<>> /\ last'.args.round < db.CONFIG.min_round)
                => last'.err = RoundTooLow(last'.args.round, db.CONFIG.min_round)
          /\ last'.args.round >= db.CONFIG.min_round
                => last'.err.kind # "RoundTooLow"]_vars

\* The round just below the floor, with a signature that is broken.
C12_Witness ==
    /\ IsAddRound(last)
    /\ last.args.signature = BrokenSignature
    /\ last.err = RoundTooLow(TESTING_MIN_ROUND - 1, TESTING_MIN_ROUND)
    /\ TESTING_MIN_ROUND \in DOMAIN db.BEACONS

C14_AttachedFundsRejected ==
    [][(IsAddRound(last') /\ last'.args.funds # <<>>) =>
          /\ last'.err = GenericErr("Do not send funds")
          /\ last'.messages = <<>>
          /\ db' = db]_vars

\* Funds are attached to a submission that is acceptable without them, and to
\* none before it.
C14_Witness ==
    /\ IsAddRound(last)
    /\ last.args.funds # <<>>
    /\ last.args.round = TESTING_MIN_ROUND
    /\ last.args.signature = DrandSignature(TESTING_MIN_ROUND)
    /\ last.args.previous_signature = DrandSignature(TESTING_MIN_ROUND - 1)
    /\ <<TESTING_MIN_ROUND, last.sender>> \notin DOMAIN db.SUBMISSIONS
    /\ last.err.kind = "GenericErr"

\* The `after` of a request, and the round its acknowledgement names.
RequestAfter(call) == IF call.op = "route" THEN call.args.after ELSE call.args.data.after
AckRound(call) == call.ack.source_id[3]
IsAcceptedRequest(call) == IsRequest(call) /\ call.ack.kind \in {"Queued", "Processed"}

\* The vectors of commit_to_drand_round_works: `after` and its round.
RoundVectors ==
    {<<<<0, 0>>, 1>>,
     <<<<1595431050 - 1, 999999999>>, 1>>,
     <<<<1595431050, 0>>, 2>>,
     <<<<1595431050, 1>>, 2>>,
     <<<<1595431050 + 29, 0>>, 2>>,
     <<<<1595431050 + 30 - 1, 999999999>>, 2>>,
     <<<<1595431050 + 30, 0>>, 3>>,
     <<<<1595431050 + 31, 0>>, 3>>}

\* C15 (round selection vectors): the round committed for a request depends
\* on `after` alone: genesis - 1ns gives 1, genesis gives 2, genesis +
\* period - 1ns gives 2, genesis + period gives 3, and any `after` before
\* genesis, time 0 included, gives 1; the source id names that round.
C15_RoundSelectionVectors ==
    IsAcceptedRequest(last) =>
        /\ \E v \in RoundVectors : v[1] = RequestAfter(last)
        /\ \A v \in RoundVectors :
              v[1] = RequestAfter(last) =>
                  last.ack.source_id = <<"drand", DRAND_CHAIN_HASH, v[2]>>
        /\ RequestAfter(last)[1] < 1595431050 => AckRound(last) = 1

\* A request whose `after` is the genesis itself is queued for round 2 behind
\* one whose `after` is the last nanosecond before the next tick.
C15_Witness ==
    /\ IsAcceptedRequest(last)
    /\ RequestAfter(last) = <<DRAND_GENESIS, 0>>
    /\ AckRound(last) = 2
    /\ Len(Queue(2)) = 2
    /\ Queue(1) # <<>>

\* C16 as written (round selection definition): with the publish time of
\* round r defined as G + r * P, the round committed for `after` is the
\* smallest round whose publish time is strictly greater than `after`.
C16_SmallestRoundAfterAsWritten ==
    LET PublishTimeAsWritten(round) == <<DRAND_GENESIS + round * DRAND_ROUND_LENGTH, 0>>
    IN
    IsAcceptedRequest(last) =>
        /\ TimestampLess(RequestAfter(last), PublishTimeAsWritten(AckRound(last)))
        /\ \A r \in 1..(AckRound(last) - 1) :
              ~TimestampLess(RequestAfter(last), PublishTimeAsWritten(r))

\* C16 (round selection definition), amended: with the publish time of round
\* r defined as G + (r - 1) * P, the round committed for `after` is the
\* smallest round whose publish time is strictly greater than `after`, so it
\* is greater than every round published at or before `after`; it is round 1
\* for any `after` before genesis.
C16_SmallestRoundAfter ==
    LET PublishTime(round) == <<DRAND_GENESIS + (round - 1) * DRAND_ROUND_LENGTH, 0>>
    IN
    IsAcceptedRequest(last) =>
        /\ AckRound(last) >= 1
        /\ TimestampLess(RequestAfter(last), PublishTime(AckRound(last)))
        /\ \A r \in 1..(AckRound(last) - 1) :
              ~TimestampLess(RequestAfter(last), PublishTime(r))
        /\ TimestampLess(RequestAfter(last), <<DRAND_GENESIS, 0>>) => AckRound(last) = 1

\* A request whose `after` is exactly the first tick after the genesis, the
\* publish time of round 2, is committed to round 3.
C16_Witness ==
    /\ IsAcceptedRequest(last)
    /\ RequestAfter(last) = <<DRAND_GENESIS + DRAND_ROUND_LENGTH, 0>>
    /\ AckRound(last) = 3

\* The indices that SUBMISSIONS_ORDER holds for a round.
Indices(d, round) == {k[2] : k \in {x \in DOMAIN d.SUBMISSIONS_ORDER : x[1] = round}}

\* C17 (submission order): the indices of a round's submissions are 0..n-1
\* in order of arrival, the k-th distinct submitter holds index k-1, and the
\* Submissions query lists the submissions in order of arrival: a successful
\* add_round appends the caller and the block time to the list of its round
\* and leaves the list of any other round as it was.
C17_SubmissionOrder ==
    [][IsAddRound(last') /\ Succeeded(last') =>
          LET round == last'.args.round
              before == query_submissions(db, round).submissions
              after == query_submissions(db', round).submissions
          IN  /\ after = Append(before, [bot |-> last'.sender, time |-> now])
              /\ Indices(db', round) = 0..(Len(after) - 1)
              /\ IndexOf(db', round, last'.sender) = Len(after) - 1
              /\ \A k \in 1..Len(before) : IndexOf(db', round, before[k].bot) = k - 1
              /\ \A other \in OrderRounds \ {round} :
                    query_submissions(db', other) = query_submissions(db, other)]_vars

\* The third submitter has just arrived, in a later block than the first two,
\* and the query lists beta1, gamma2, alpha3.
C17_Witness ==
    /\ IsAddRound(last) /\ Succeeded(last)
    /\ last.sender = "alpha3"
    /\ last.args.round = RoundA
    /\ LET s == query_submissions(db, RoundA).submissions
       IN  /\ Len(s) = 3
           /\ s[1].bot = "beta1" /\ s[2].bot = "gamma2" /\ s[3].bot = "alpha3"
           /\ s[3].time # s[1].time
    /\ Len(query_submissions(db, RoundB).submissions) = 1

\* The rounds whose statistics are compared: the two that are requested and
\* submitted, and one that never is.
StatsRounds == {RoundA, RoundB, RoundB + 1}

\* The deliveries emitted so far for a round, by requests and by submissions.
Deliveries(round) == Len(SeqAt(hist.served, round)) + Len(SeqAt(hist.drained, round))

\* C18 (job accounting): for every round the JobStats query of the oracle
\* reports as unprocessed the current length of the round's queue and as
\* processed the number of deliveries emitted for the round, on the immediate
\* path and by drains; their sum is the number of requests accepted for the
\* round, and both are 0 for a round never requested.
C18_JobAccounting ==
    contract = "nois-oracle" =>
        \A round \in StatsRounds :
            LET stats == query_job_stats(db, round)
            IN  /\ stats.round = round
                /\ stats.unprocessed = Len(unprocessed_jobs(db, round))
                /\ stats.unprocessed =
                       Len(SeqAt(hist.enqueued, round)) - Len(SeqAt(hist.drained, round))
                /\ stats.processed = Deliveries(round)
                /\ stats.processed + stats.unprocessed = Accepted(round)
                /\ Accepted(round) = 0 => stats.processed = 0 /\ stats.unprocessed = 0

\* Four requests were queued for a round and a submission drained three of
\* them: 3 processed, 1 unprocessed. The request for the other round came
\* after its beacon and was served at once: 1 processed, 0 unprocessed.
C18_Witness ==
    /\ contract = "nois-oracle"
    /\ query_job_stats(db, RoundA).unprocessed = 1
    /\ query_job_stats(db, RoundA).processed = 3
    /\ Len(SeqAt(hist.drained, RoundA)) = 3
    /\ Len(SeqAt(hist.served, RoundB)) = 1
    /\ query_job_stats(db, RoundB).processed = 1
    /\ query_job_stats(db, RoundB).unprocessed = 0
    /\ Accepted(RoundB + 1) = 0

\* C19 (whitelist is admin-only): an UpdateWhitelistBots call from a caller
\* who is not the admin, here the account that instantiated the contract, is
\* rejected with an unauthorized error and leaves the whitelist unchanged, so
\* the whitelist changes only in calls by the admin.
C19_WhitelistAdminOnly ==
    [][/\ (last'.op = "update_whitelist_bots" /\ last'.sender # "creator") =>
              /\ last'.err.kind = "Unauthorized"
              /\ db'.WHITELIST = db.WHITELIST
       /\ db'.WHITELIST # db.WHITELIST =>
              last'.op = "update_whitelist_bots" /\ last'.sender = "creator"]_vars

\* The rounds of SpecProgress.
ProgressRounds == {RoundA, RoundB}

\* C20 (progress by re-submission): the jobs queued for a round whose beacon
\* is archived stay queued, all of them and in their order, in every step
\* that is not a successful add_round for that round: requests, registration,
\* whitelist updates, submissions for another round and rejected submissions
\* take none of them. An add_round for that round that passes the checks
\* (no funds, round at or above the floor, verifying signatures, a submitter
\* with no submission for the round yet) succeeds although the round is
\* archived, delivers the first min(3, n) of the n queued jobs and leaves the
\* rest queued.
C20_ProgressByResubmission ==
    [][\A round \in ProgressRounds :
          LET queue == unprocessed_jobs(db, round)
              n == Len(queue)
              accepted == IsAcceptable(last', db) /\ last'.args.round = round
              submitted == IsAddRound(last') /\ Succeeded(last') /\ last'.args.round = round
          IN  (is_some(query_beacon(db, round)) /\ n > 0) =>
                  /\ accepted <=> submitted
                  /\ submitted =>
                        /\ JobsOfMessages(last'.messages) = SubSeq(queue, 1, Min2(3, n))
                        /\ unprocessed_jobs(db', round) = SubSeq(queue, Min2(3, n) + 1, n)
                        /\ query_beacon(db', round) = query_beacon(db, round)
                  /\ ~submitted => unprocessed_jobs(db', round) = queue]_vars

\* Five jobs were queued; the first submission delivered three, and the second
\* one, for the round already archived, has just delivered the other two.
C20_Witness ==
    /\ IsAddRound(last) /\ Succeeded(last)
    /\ last.args.round = RoundA
    /\ next_index(db, RoundA) = 2
    /\ Len(IbcMessages(last.messages)) = 2
    /\ Len(SeqAt(hist.drained, RoundA)) = 5
    /\ unprocessed_jobs(db, RoundA) = <<>>

\* The place of a round in its lifecycle: 0 Unseen (no beacon, no job queued),
\* 1 Queued-only (no beacon, jobs queued), 2 Archived (beacon, jobs queued),
\* 3 Fully-drained (beacon, no job queued).
Lifecycle(d, round) ==
    IF is_some(query_beacon(d, round))
    THEN (IF unprocessed_jobs(d, round) = <<>> THEN 3 ELSE 2)
    ELSE (IF unprocessed_jobs(d, round) = <<>> THEN 0 ELSE 1)

\* C21 (per-round lifecycle): a round only moves forward through Unseen,
\* Queued-only, Archived, Fully-drained: its place never decreases, a beacon
\* once archived is neither removed nor changed, an accepted request on an
\* Unseen or Queued-only round leaves it Queued-only, the queue of a round
\* with a beacon never grows, and a Fully-drained round stays Fully-drained.
C21_RoundLifecycle ==
    [][\A round \in ProgressRounds :
          LET before == Lifecycle(db, round)
              after == Lifecycle(db', round)
              requested == /\ IsAcceptedRequest(last')
                           /\ round_after(RequestAfter(last')) = round
          IN  /\ before <= after
              /\ is_some(query_beacon(db, round)) =>
                    /\ query_beacon(db', round) = query_beacon(db, round)
                    /\ Len(unprocessed_jobs(db', round)) <= Len(unprocessed_jobs(db, round))
              /\ (requested /\ before \in {0, 1}) =>
                    /\ after = 1
                    /\ Len(unprocessed_jobs(db', round)) = Len(unprocessed_jobs(db, round)) + 1
              /\ before = 3 => after = 3]_vars

\* A round went through all four places: four jobs were queued, the first
\* submission delivered three, the second the last one, and a request that
\* came after that was served at once and left the queue empty. The other
\* round is Queued-only.
C21_Witness ==
    /\ IsAcceptedRequest(last)
    /\ round_after(RequestAfter(last)) = RoundA
    /\ last.ack.kind = "Processed"
    /\ Lifecycle(db, RoundA) = 3
    /\ Len(SeqAt(hist.drained, RoundA)) = 4
    /\ next_index(db, RoundA) = 2
    /\ Lifecycle(db, RoundB) = 1

\* The round a call is for: the round of a submission, the round committed
\* for a request.
RoundOf(call) ==
    IF IsAddRound(call) THEN call.args.round ELSE round_after(RequestAfter(call))

\* What the oracle stores for one round.
RoundState(d, round) ==
    [beacon |-> query_beacon(d, round),
     submissions |-> {k \in DOMAIN d.SUBMISSIONS : k[1] = round},
     order |-> query_submissions(d, round).submissions,
     processed |-> get_processed_jobs(d, round),
     queue |-> unprocessed_jobs(d, round)]

\* C22 (per-round independence): a request or a submission for round r
\* leaves the queue, the processed counter, the beacon and the submission
\* tables of every other round as they were and emits no delivery of a job of
\* another round; a submission for the round before the round of a queued job
\* dispatches no job.
C22_RoundIndependence ==
    [][(IsAddRound(last') \/ last'.op = "ibc_packet_receive") =>
          \A other \in ProgressRounds \ {RoundOf(last')} :
              /\ RoundState(db', other) = RoundState(db, other)
              /\ \A i \in 1..Len(JobsOfMessages(last'.messages)) :
                    JobsOfMessages(last'.messages)[i].source_id # source_id_of(other)
              /\ SeqAt(hist'.drained, other) = SeqAt(hist.drained, other)]_vars

\* A job is queued for a round and the round before it has just been
\* submitted: the submission succeeded, dispatched nothing, and the job is
\* still queued.
C22_Witness ==
    /\ IsAddRound(last) /\ Succeeded(last)
    /\ last.args.round = RoundA
    /\ RoundB = RoundA + 1
    /\ last.messages = <<>>
    /\ Len(unprocessed_jobs(db, RoundB)) = 1
    /\ ~is_some(query_beacon(db, RoundB))
    /\ get_processed_jobs(db, RoundB) = 0

\* The value of the attribute `key` of a response, None without it.
AttributeOf(call, key) ==
    LET found == {i \in DOMAIN call.attributes : call.attributes[i][1] = key}
    IN  IF found = {} THEN None ELSE Some(call.attributes[CHOOSE i \in found : TRUE][2])

\* C23 (repeated rounds by other parties): an add_round that passes the
\* checks, for a round already archived and from a submitter with no
\* submission for it, succeeds, records the submission under the next index,
\* delivers min(3, n) of the n queued jobs, leaves the beacon as it was and
\* reports its randomness in the `randomness` attribute; the first
\* submission reports the randomness it archives, so all submissions of a
\* round report the same value.
C23_RepeatedRound ==
    [][IsAcceptable(last', db) =>
          LET round == last'.args.round
              sender == last'.sender
              n == Len(unprocessed_jobs(db, round))
          IN  /\ Succeeded(last')
              /\ has(db'.SUBMISSIONS, <<round, sender>>)
              /\ IndexOf(db', round, sender) = next_index(db, round)
              /\ Len(IbcMessages(last'.messages)) = Min2(3, n)
              /\ Len(unprocessed_jobs(db', round)) = n - Min2(3, n)
              /\ is_some(query_beacon(db', round))
              /\ AttributeOf(last', "randomness") =
                     Some(unwrap(query_beacon(db', round)).randomness)
              /\ is_some(query_beacon(db, round)) =>
                     /\ query_beacon(db', round) = query_beacon(db, round)
                     /\ AttributeOf(last', "randomness") =
                            Some(unwrap(query_beacon(db, round)).randomness)]_vars

\* The third submitter of a round has just been accepted; the round was
\* archived by the first, five jobs were queued and the first two
\* submissions delivered them, so this one found nothing to deliver.
C23_Witness ==
    /\ IsAddRound(last) /\ Succeeded(last)
    /\ last.args.round = RoundA
    /\ next_index(db, RoundA) = 3
    /\ AttributeOf(last, "randomness") = Some(unwrap(query_beacon(db, RoundA)).randomness)
    /\ Len(SeqAt(hist.drained, RoundA)) = 5
    /\ last.messages = <<>>

\* C24 (bot registration update): RegisterBot with a valid moniker by an
\* address without Bot record creates one with rounds_added = 0; by a
\* registered address it replaces the moniker and keeps rounds_added; in both
\* cases the records of the other bots, the whitelist, the submissions, the
\* archive, the queues and the counters stay as they were and no message is
\* emitted. RegisterBot with an invalid moniker fails with InvalidMoniker and
\* changes nothing.
C24_RegisterBot ==
    [][last'.op = "register_bot" =>
          LET sender == last'.sender
              moniker == last'.args.moniker
              old == may_load(db.BOTS, sender)
          IN  /\ last'.messages = <<>>
              /\ hist' = hist /\ balance' = balance
              /\ IF ~validate_moniker(moniker)
                 THEN last'.err = InvalidMoniker /\ db' = db
                 ELSE /\ Succeeded(last')
                      /\ db'.BOTS[sender].moniker = moniker
                      /\ db'.BOTS[sender].rounds_added =
                             (IF is_some(old) THEN unwrap(old).rounds_added ELSE 0)
                      /\ DOMAIN db'.BOTS = DOMAIN db.BOTS \cup {sender}
                      /\ \A other \in DOMAIN db.BOTS \ {sender} :
                             db'.BOTS[other] = db.BOTS[other]
                      /\ [db' EXCEPT !.BOTS = db.BOTS] = db]_vars

\* A bot that has added two rounds since it registered has just changed its
\* moniker; it is on the whitelist and a job has been delivered.
C24_Witness ==
    /\ last.op = "register_bot" /\ Succeeded(last)
    /\ last.sender = "bot1"
    /\ db.BOTS["bot1"] = [moniker |-> "Another nickname", rounds_added |-> 2]
    /\ "bot1" \in db.WHITELIST
    /\ "bot2" \notin DOMAIN db.BOTS
    /\ get_processed_jobs(db, RoundA) = 1

\* C25 (unregistered submitters add rounds and are never paid): an add_round
\* that passes the checks, from an address without Bot record, succeeds,
\* archives the beacon, records the submission, delivers min(3, n) of the n
\* queued jobs, creates no Bot record and emits no payment, whatever the
\* balance, the whitelist and the index of the submission.
C25_UnregisteredNeverPaid ==
    [][(IsAcceptable(last', db) /\ ~has(db.BOTS, last'.sender)) =>
          LET round == last'.args.round
              n == Len(unprocessed_jobs(db, round))
          IN  /\ Succeeded(last')
              /\ is_some(query_beacon(db', round))
              /\ has(db'.SUBMISSIONS, <<round, last'.sender>>)
              /\ IndexOf(db', round, last'.sender) = next_index(db, round)
              /\ Len(IbcMessages(last'.messages)) = Min2(3, n)
              /\ Len(unprocessed_jobs(db', round)) = n - Min2(3, n)
              /\ db'.BOTS = db.BOTS
              /\ BankMessages(last'.messages) = <<>>
              /\ Len(last'.messages) = Min2(3, n)
              /\ balance' = balance]_vars

\* The first submission of a round comes from a whitelisted address that has
\* no Bot record, while the contract holds a hundred incentives: the round is
\* archived, three of four jobs are delivered, nothing is paid.
C25_Witness ==
    /\ IsAddRound(last) /\ Succeeded(last)
    /\ last.sender = "unregistered_bot"
    /\ ~has(db.BOTS, "unregistered_bot")
    /\ "unregistered_bot" \in db.WHITELIST
    /\ next_index(db, last.args.round) = 1
    /\ balance >= INCENTIVE_AMOUNT
    /\ is_some(query_beacon(db, RoundA))
    /\ Len(IbcMessages(last.messages)) = 3
    /\ BankMessages(last.messages) = <<>>
    /\ Len(unprocessed_jobs(db, RoundA)) = 1

\* C26 (eligibility is not retroactive): a payment is emitted only by a
\* successful add_round, at most one per call, to the caller, in the call
\* that records the caller's submission for the round, and only if the
\* caller was registered and whitelisted before the call; a recorded
\* submission is never removed, so each (round, submitter) is paid at most
\* once and an add_round of a submitter whose submission for the round is
\* recorded pays nothing, whatever was registered or whitelisted since.
C26_NotRetroactive ==
    [][/\ DOMAIN db.SUBMISSIONS \subseteq DOMAIN db'.SUBMISSIONS
       /\ BankMessages(last'.messages) # <<>> =>
              /\ IsAddRound(last') /\ Succeeded(last')
              /\ BankMessages(last'.messages) =
                     <<BankSend(last'.sender, incentive_amount(db.CONFIG))>>
              /\ ~has(db.SUBMISSIONS, <<last'.args.round, last'.sender>>)
              /\ has(db'.SUBMISSIONS, <<last'.args.round, last'.sender>>)
              /\ has(db.BOTS, last'.sender)
              /\ last'.sender \in db.WHITELIST
       /\ balance' < balance => BankMessages(last'.messages) # <<>>
       /\ (IsAddRound(last') /\ has(db.SUBMISSIONS, <<last'.args.round, last'.sender>>)) =>
              last'.messages = <<>> /\ balance' = balance]_vars

\* A bot submitted two rounds, then registered and was whitelisted, and has
\* just sent the first round again: the call is rejected, and of the hundred
\* incentives none has been paid.
C26_Witness ==
    /\ IsAddRound(last)
    /\ last.sender = "registered_bot"
    /\ last.args.round = RoundA
    /\ last.err = SubmissionExists
    /\ has(db.SUBMISSIONS, <<RoundA, "registered_bot">>)
    /\ has(db.SUBMISSIONS, <<RoundB, "registered_bot">>)
    /\ has(db.BOTS, "registered_bot")
    /\ db.BOTS["registered_bot"].rounds_added = 0
    /\ "registered_bot" \in db.WHITELIST
    /\ balance = TESTING_BALANCE

\* C27 (cap by call site): new_drand of the gateway's router delivers
\* min(2, n) jobs when is_verifying_tx is true and min(14, n) when it is
\* false, n being the length of the round's queue before the call;
\* jobs_processed is the number of messages returned, jobs_left the length
\* of the queue after the call, and jobs_processed + jobs_left = n.
C27_CapByCallSite ==
    [][last'.op = "new_drand" =>
          LET round == last'.args.round
              n == Len(unprocessed_drand_jobs(gw, round))
              cap == IF last'.args.is_verifying_tx THEN 2 ELSE 14
              ret == unwrap(last'.ret)
          IN  /\ Len(last'.messages) = Min2(cap, n)
              /\ ret.jobs_processed = Len(last'.messages)
              /\ ret.jobs_left = Len(unprocessed_drand_jobs(gw', round))
              /\ ret.jobs_processed + ret.jobs_left = n
              /\ JobsOfMessages(last'.messages) = SubSeq(unprocessed_drand_jobs(gw, round), 1, Min2(cap, n))]_vars

\* Sixteen jobs were queued; an announcement without verification delivered
\* fourteen, and the one with verification that followed has just delivered
\* the other two.
C27_Witness ==
    /\ last.op = "new_drand"
    /\ last.args.is_verifying_tx
    /\ unwrap(last.ret) = [jobs_processed |-> 2, jobs_left |-> 0]
    /\ Len(SeqAt(hist.drained, RoundA)) = 16
    /\ get_processed_drand_jobs(gw, RoundA) = 16

\* The job of a request, as its inputs give it.
JobOfRequest(call) ==
    IF call.op = "route"
    THEN [source_id |-> source_id_of(RoundOf(call)), channel |-> call.args.channel,
          origin |-> call.args.origin]
    ELSE [source_id |-> source_id_of(RoundOf(call)), job_id |-> call.args.data.job_id,
          channel |-> call.args.channel_id, sender |-> call.args.data.sender]

\* C28 (delivery message addressing and expiry): every delivery message
\* times out at the block time of the call that emits it plus
\* DELIVER_BEACON_PACKET_LIFETIME; a request served at once is answered by
\* one message on the channel the request came in on, with the request's
\* sender and job_id (oracle) or origin (gateway); the messages of a drain
\* are addressed, in order, like the requests of the round that were queued
\* and not yet delivered.
C28_DeliveryAddressing ==
    [][/\ \A i \in DOMAIN IbcMessages(last'.messages) :
              IbcMessages(last'.messages)[i].timeout =
                  <<now[1] + DELIVER_BEACON_PACKET_LIFETIME, now[2]>>
       /\ (IsRequest(last') /\ last'.ack.kind = "Processed") =>
              JobsOfMessages(last'.messages) = <<JobOfRequest(last')>>
       /\ (IsRequest(last') /\ last'.ack.kind = "Queued") =>
              /\ last'.messages = <<>>
              /\ QueueAfter(RoundOf(last')) = Append(Queue(RoundOf(last')), JobOfRequest(last'))
       /\ IsDrain(last') =>
              LET round == last'.args.round
                  delivered == Len(SeqAt(hist.drained, round))
                  k == Len(IbcMessages(last'.messages))
              IN  JobsOfMessages(last'.messages) =
                      SubSeq(SeqAt(hist.enqueued, round), delivered + 1, delivered + k)]_vars

\* Requests came in on two channels, the one on the second channel in the
\* first block; in a later block a drain has just delivered one of each, and
\* the message on the second channel times out an hour after the later block.
C28_Witness ==
    /\ IsDrain(last)
    /\ now[1] > MOCK_ENV_SECONDS
    /\ Len(IbcMessages(last.messages)) >= 2
    /\ \E i, j \in DOMAIN IbcMessages(last.messages) :
          /\ IbcMessages(last.messages)[i].channel_id = "channel-1"
          /\ IbcMessages(last.messages)[j].channel_id = "channel-2"
          /\ IbcMessages(last.messages)[j].timeout[1] = now[1] + DELIVER_BEACON_PACKET_LIFETIME

\* The randomness a round's deliveries carry: that of the beacon the oracle
\* stores after the step, the one the gateway's archive holds for a request
\* served at once, the one announced for a drain of the gateway.
DeliveredRandomness(call, round) ==
    IF contract = "nois-oracle" THEN unwrap(query_beacon(db', round)).randomness
    ELSE IF call.op = "route" THEN unwrap(archive_lookup(gw', round))
    ELSE call.args.randomness

\* C29 (source id consistency): the acknowledgement of an accepted request
\* carries the source id made of "drand", the chain hash and the committed
\* round; the job is queued under that round with that source id, or answered
\* at once by a message with that source id and the round's randomness; and
\* every message of a drain of round r carries the source id of r, which is
\* the source id acknowledged to the request it answers, and the randomness
\* of r.
C29_SourceIdConsistency ==
    [][/\ IsAcceptedRequest(last') =>
              LET round == round_after(RequestAfter(last'))
                  source_id == <<"drand", DRAND_CHAIN_HASH, round>>
              IN  /\ last'.ack.source_id = source_id
                  /\ last'.ack.kind = "Queued" =>
                        /\ QueueAfter(round) = Append(Queue(round), JobOfRequest(last'))
                        /\ QueueAfter(round)[Len(QueueAfter(round))].source_id = source_id
                  /\ last'.ack.kind = "Processed" =>
                        /\ Len(last'.messages) = 1
                        /\ last'.messages[1].data.source_id = source_id
                        /\ last'.messages[1].data.randomness = DeliveredRandomness(last', round)
       /\ IsDrain(last') =>
              LET round == last'.args.round
                  ibc == IbcMessages(last'.messages)
              IN  \A i \in DOMAIN ibc :
                      /\ ibc[i].data.source_id = <<"drand", DRAND_CHAIN_HASH, round>>
                      /\ ibc[i].data.source_id = Queue(round)[i].source_id
                      /\ ibc[i].data.randomness = DeliveredRandomness(last', round)
       /\ \A round \in StatsRounds : \A i \in DOMAIN QueueAfter(round) :
              QueueAfter(round)[i].source_id = <<"drand", DRAND_CHAIN_HASH, round>>]_vars

\* Jobs of one round have been delivered by a drain and a job of the other
\* round has just been delivered by a drain of that round, with the source id
\* of that round.
C29_Witness ==
    /\ IsDrain(last)
    /\ last.args.round = RoundB
    /\ Len(IbcMessages(last.messages)) = 1
    /\ last.messages[Len(last.messages)].data.source_id = <<"drand", DRAND_CHAIN_HASH, RoundB>>
    /\ SeqAt(hist.enqueued, RoundB) = SeqAt(hist.drained, RoundB)
    /\ Len(SeqAt(hist.drained, RoundA)) >= 2

\* C30 (beacon listing): BeaconsAsc returns the archived rounds strictly
\* greater than start_after, BeaconsDesc those strictly less than it, all of
\* them without start_after, in ascending and descending order of round;
\* the list is cut after `limit` entries, 100 without limit, so it holds the
\* first rounds in that order; each entry is the round's stored beacon; the
\* cursor round is never in the list, and the query changes nothing.
C30_BeaconListing ==
    [][last'.op = "query_beacons" =>
          LET args == last'.args
              beacons == unwrap(last'.ret).beacons
              asc == args.order = "Ascending"
              listed == {beacons[i].round : i \in DOMAIN beacons}
              eligible == {round \in DOMAIN db.BEACONS :
                              \/ ~is_some(args.start_after)
                              \/ asc /\ round > unwrap(args.start_after)
                              \/ ~asc /\ round < unwrap(args.start_after)}
              limit == IF is_some(args.limit) THEN unwrap(args.limit) ELSE 100
          IN  /\ Len(beacons) = Min2(limit, Cardinality(eligible))
              /\ listed \subseteq eligible
              /\ \A i \in 1..(Len(beacons) - 1) :
                    IF asc THEN beacons[i].round < beacons[i + 1].round
                           ELSE beacons[i].round > beacons[i + 1].round
              /\ \A round \in eligible \ listed : \A other \in listed :
                    IF asc THEN other < round ELSE other > round
              /\ \A i \in DOMAIN beacons :
                    /\ beacons[i].randomness = db.BEACONS[beacons[i].round].randomness
                    /\ beacons[i].verified = db.BEACONS[beacons[i].round].verified
              /\ is_some(args.start_after) => unwrap(args.start_after) \notin listed
              /\ db' = db]_vars

\* The archive holds 102 rounds and is listed in ascending order after its
\* first round without limit: of the 101 later rounds the first 100 are
\* returned, from the second round on.
C30_Witness ==
    /\ last.op = "query_beacons"
    /\ last.args = [order |-> "Ascending", limit |-> None, start_after |-> Some(TESTING_MIN_ROUND)]
    /\ Cardinality(DOMAIN db.BEACONS) = 102
    /\ Len(unwrap(last.ret).beacons) = 100
    /\ unwrap(last.ret).beacons[1].round = TESTING_MIN_ROUND + 2
    /\ unwrap(last.ret).beacons[100].round = TESTING_MIN_ROUND + 200

\* C31: a point query for something absent succeeds with the empty answer:
\* Beacon for a round without record answers an absent beacon, Bot for an
\* unregistered valid address an absent bot, Submissions for a round without
\* submissions an empty list, and JobStats for a round no request was made
\* for processed = 0 and unprocessed = 0.
C31_QueriesDoNotFailOnAbsence ==
    last.op = "query" =>
        /\ (last.args.type = "Beacon" /\ ~has(db.BEACONS, last.args.round))
              => last.err = NoError /\ last.ret = Some([beacon |-> None])
        /\ (last.args.type = "Bot" /\ last.args.address # "" /\ ~has(db.BOTS, last.args.address))
              => last.err = NoError /\ last.ret = Some([bot |-> None])
        /\ (last.args.type = "Submissions" /\ ~\E k \in DOMAIN db.SUBMISSIONS : k[1] = last.args.round)
              => last.err = NoError
                 /\ last.ret = Some([round |-> last.args.round, submissions |-> <<>>])
        /\ (last.args.type = "JobStats" /\ Accepted(last.args.round) = 0)
              => last.err = NoError
                 /\ last.ret = Some([round |-> last.args.round, unprocessed |-> 0, processed |-> 0])

\* The beacon of the second round is asked for while only the first is
\* archived.
C31_Witness ==
    /\ last.op = "query"
    /\ last.args = [round |-> RoundB, type |-> "Beacon"]
    /\ has(db.BEACONS, RoundA)
    /\ ~has(db.BEACONS, RoundB)

\* A job of the oracle and a job of the gateway made from the same request.
JobsAgree(oracle, gateway) ==
    /\ oracle.source_id = gateway.source_id
    /\ oracle.channel = gateway.channel
    /\ gateway.origin = Origin(oracle.sender, oracle.job_id)

\* A delivery of the oracle and one of the gateway for the same job.
MessagesAgree(oracle, gateway) ==
    /\ oracle.channel_id = gateway.channel_id
    /\ oracle.timeout = gateway.timeout
    /\ oracle.data.source_id = gateway.data.source_id
    /\ oracle.data.randomness = gateway.data.randomness
    /\ gateway.data.origin = Origin(oracle.data.sender, oracle.data.job_id)

SeqsAgree(Agree(_, _), oracle, gateway) ==
    /\ Len(oracle) = Len(gateway)
    /\ \A i \in 1..Len(oracle) : Agree(oracle[i], gateway[i])

\* The two contracts hold the same for the round: archived or not, with the
\* same randomness, the same jobs in the same order, the same counter.
SameRoundState(d, g, round) ==
    /\ has(d.BEACONS, round) <=> has(g.ARCHIVE, round)
    /\ has(d.BEACONS, round) => d.BEACONS[round].randomness = g.ARCHIVE[round]
    /\ SeqsAgree(JobsAgree, unprocessed_jobs(d, round), unprocessed_drand_jobs(g, round))
    /\ get_processed_jobs(d, round) = get_processed_drand_jobs(g, round)

\* The two receipts of a request agree, and the round's state afterwards.
RequestAgrees(round) ==
    /\ last'.ack = unwrap(last'.ret).ack
    /\ SeqsAgree(MessagesAgree, IbcMessages(last'.messages), unwrap(last'.ret).messages)
    /\ SameRoundState(db', gw', round)

\* The two drains of a round whose state was the same differ in the cap only:
\* each delivers the first min(queue, cap) jobs in order, leaves the rest,
\* adds the number to the counter and has the round archived.
DrainAgrees(round) ==
    LET queue == unprocessed_jobs(db, round)
        oracle == IbcMessages(last'.messages)
        gateway == unwrap(last'.ret).messages
        n_oracle == Min2(Len(queue), MAX_JOBS_PER_SUBMISSION)
        n_gateway == Min2(Len(queue), IF last'.args.is_verifying_tx
                                     THEN MAX_JOBS_PER_SUBMISSION_WITH_VERIFICATION
                                     ELSE MAX_JOBS_PER_SUBMISSION_WITHOUT_VERIFICATION)
    IN  /\ Len(oracle) = n_oracle
        /\ Len(gateway) = n_gateway
        /\ \A i \in 1..n_oracle : JobOfMessage(oracle[i]) = queue[i]
        /\ \A i \in 1..Min2(n_oracle, n_gateway) : MessagesAgree(oracle[i], gateway[i])
        /\ unprocessed_jobs(db', round) = SubSeq(queue, n_oracle + 1, Len(queue))
        /\ SeqsAgree(JobsAgree, SubSeq(queue, n_gateway + 1, Len(queue)),
                     unprocessed_drand_jobs(gw', round))
        /\ get_processed_jobs(db', round) = get_processed_jobs(db, round) + n_oracle
        /\ get_processed_drand_jobs(gw', round) = get_processed_jobs(db, round) + n_gateway
        /\ has(db'.BEACONS, round) /\ has(gw'.ARCHIVE, round)
        /\ db'.BEACONS[round].randomness = gw'.ARCHIVE[round]
        /\ n_oracle = n_gateway => SameRoundState(db', gw', round)

\* C32 as written (routing variants agree on every request): for the same
\* state of a round and the same request, receive_request_beacon and route
\* give the same acknowledgement, as many deliveries, and the same effect on
\* the queue and the counter. Violated by a request with a malformed job
\* identifier, which only the oracle rejects.
C32_RoutingVariantsAgreeAsWritten ==
    [][\A round \in AgreeRounds :
          (/\ SameRoundState(db, gw, round)
           /\ last'.op = "request"
           /\ round_after(last'.args.after) = round)
          => RequestAgrees(round)]_vars

\* C32 (routing variants agree), amended: for the same state of a round and
\* the same request with a well-formed job identifier, the two variants give
\* the same acknowledgement kind and source id, as many deliveries with the
\* same content, and the same effect on the round's queue and counter; and a
\* successful submission to the oracle and new_drand of the gateway with the
\* same randomness differ in the cap only.
C32_RoutingVariantsAgree ==
    [][\A round \in AgreeRounds :
          SameRoundState(db, gw, round) =>
              /\ (/\ last'.op = "request"
                  /\ round_after(last'.args.after) = round
                  /\ validate_job_id(last'.args.job_id))
                 => last'.err = NoError /\ RequestAgrees(round)
              /\ (/\ last'.op = "submit"
                  /\ last'.args.round = round
                  /\ last'.err = NoError)
                 => DrainAgrees(round)]_vars

\* Three jobs wait in both queues; the oracle delivers all of them and
\* the gateway, from a verifying transaction, the first two.
C32_Witness ==
    /\ last.op = "submit"
    /\ last.err = NoError
    /\ Len(IbcMessages(last.messages)) = MAX_JOBS_PER_SUBMISSION
    /\ Len(unwrap(last.ret).messages) = MAX_JOBS_PER_SUBMISSION_WITH_VERIFICATION
    /\ unprocessed_jobs_len(db, last.args.round) = 0
    /\ unprocessed_drand_jobs_len(gw, last.args.round) = 1
    /\ get_processed_jobs(db, last.args.round) = 3
    /\ get_processed_drand_jobs(gw, last.args.round) = 2

\* C33 (delivered randomness equals archived randomness): every delivery
\* message emitted for a round, by a request served at once or by a drain,
\* carries the randomness the archive holds for the round when the message is
\* emitted, also when new_drand is called for an archived round with another
\* randomness.
C33_DeliveredEqualsArchived ==
    [][(IsDrain(last') \/ IsAcceptedRequest(last')) =>
          LET round == IF IsDrain(last') THEN last'.args.round
                       ELSE round_after(RequestAfter(last'))
              archived == IF contract = "nois-oracle"
                          THEN db'.BEACONS[round].randomness
                          ELSE gw'.ARCHIVE[round]
              ibc == IbcMessages(last'.messages)
          IN  \A i \in DOMAIN ibc : ibc[i].data.randomness = archived]_vars

\* C34 (payment bound per round): the payments made for the one round of
\* SpecPayments, which the balance counts, are never more than 6; the index
\* a submitter gets is the number of submitters recorded before, whoever they
\* are, and a submitter who comes after 6 recorded submissions is not paid
\* even when registered and on the whitelist.
C34_PaymentBound ==
    [][LET recorded == Cardinality({k \in DOMAIN db.SUBMISSIONS : k[1] = TESTING_MIN_ROUND})
       IN  /\ (TESTING_BALANCE - balance') <= NUMBER_OF_INCENTIVES_PER_ROUND * INCENTIVE_AMOUNT
           /\ (IsAddRound(last') /\ Succeeded(last')) =>
                 /\ IndexOf(db', last'.args.round, last'.sender) = recorded
                 /\ Len(BankMessages(last'.messages)) <= 1
                 /\ balance' = balance - Len(BankMessages(last'.messages)) * INCENTIVE_AMOUNT
                 /\ recorded >= NUMBER_OF_INCENTIVES_PER_ROUND
                       => BankMessages(last'.messages) = <<>>]_vars

\* The first bot never registered and its submission took index 0; five
\* bots were paid; the seventh, registered and on the whitelist, is recorded
\* at index 6 and gets nothing although the balance would cover it.
C34_Witness ==
    /\ IsAddRound(last) /\ Succeeded(last)
    /\ last.sender = "registered_bot7"
    /\ IndexOf(db, TESTING_MIN_ROUND, "registered_bot7") = 6
    /\ IndexOf(db, TESTING_MIN_ROUND, "registered_bot1") = 0
    /\ ~has(db.BOTS, "registered_bot1")
    /\ has(db.BOTS, "registered_bot7")
    /\ "registered_bot7" \in db.WHITELIST
    /\ balance = TESTING_BALANCE - 5 * INCENTIVE_AMOUNT
    /\ last.messages = <<>>

\* C35 (archive and submissions agree): a round has a beacon exactly when it
\* has a recorded submission; the beacon's verified time is the time of the
\* submission at index 0; and every archived round is at or above the floor.
C35_ArchiveAndSubmissionsAgree ==
    LET submitted == {k[1] : k \in DOMAIN db.SUBMISSIONS}
    IN  /\ DOMAIN db.BEACONS = submitted
        /\ \A round \in DOMAIN db.BEACONS :
              /\ has(db.SUBMISSIONS_ORDER, <<round, 0>>)
              /\ has(db.SUBMISSIONS, <<round, db.SUBMISSIONS_ORDER[<<round, 0>>]>>)
              /\ db.BEACONS[round].verified
                    = db.SUBMISSIONS[<<round, db.SUBMISSIONS_ORDER[<<round, 0>>]>>].time
              /\ round >= db.CONFIG.min_round

\* The round below the floor has just been refused; the other round has two
\* submissions from different blocks and the beacon carries the time of the
\* one at index 0.
C35_Witness ==
    /\ IsAddRound(last)
    /\ last.err = RoundTooLow(TESTING_MIN_ROUND - 1, TESTING_MIN_ROUND)
    /\ next_index(db, RoundA) = 2
    /\ db.SUBMISSIONS[<<RoundA, db.SUBMISSIONS_ORDER[<<RoundA, 1>>]>>].time
          # db.BEACONS[RoundA].verified
    /\ DOMAIN db.BEACONS = {RoundA}

\* C36 (submission tables agree): an address has an entry in SUBMISSIONS
\* under (round, address) exactly when it stands at exactly one index of
\* SUBMISSIONS_ORDER for the round, no address stands at two indices, and the
\* Submissions query, which loads the entry of every ordered address, does
\* not fail.
C36_SubmissionTablesAgree ==
    /\ \A k \in DOMAIN db.SUBMISSIONS :
          Cardinality({i \in Indices(db, k[1]) : db.SUBMISSIONS_ORDER[<<k[1], i>>] = k[2]}) = 1
    /\ \A o \in DOMAIN db.SUBMISSIONS_ORDER :
          has(db.SUBMISSIONS, <<o[1], db.SUBMISSIONS_ORDER[o]>>)
    /\ \A round \in OrderRounds :
          /\ Cardinality(Indices(db, round))
                = Cardinality({k \in DOMAIN db.SUBMISSIONS : k[1] = round})
          /\ query(db, [round |-> round, type |-> "Submissions"]).err = NoError
          /\ Len(unwrap(query(db, [round |-> round, type |-> "Submissions"]).ret).submissions)
                = Cardinality({k \in DOMAIN db.SUBMISSIONS : k[1] = round})

\* Three addresses are recorded for one round and one of them for the
\* other; a duplicate of the third has just been refused.
C36_Witness ==
    /\ IsAddRound(last)
    /\ last.err = SubmissionExists
    /\ last.args.round = RoundA
    /\ Cardinality(Indices(db, RoundA)) = 3
    /\ Cardinality(Indices(db, RoundB)) = 1
    /\ has(db.SUBMISSIONS, <<RoundB, last.sender>>)

\* C37 (rounds_added counts successful submissions): the counter of a
\* registered bot goes up by exactly 1 in each successful add_round of that
\* bot and stays as it is in every other step (a failed add_round, an
\* add_round of another sender, a registration, a whitelist update, a
\* request); a new record starts at 0 and a submission of an unregistered
\* sender creates no record. So the counter never exceeds the number of
\* rounds the bot has a recorded submission for, the difference being the
\* rounds it submitted before it registered.
C37_RoundsAddedCountsSubmissions ==
    [][/\ \A bot \in DOMAIN db.BOTS :
             /\ has(db'.BOTS, bot)
             /\ db'.BOTS[bot].rounds_added =
                   IF IsAddRound(last') /\ Succeeded(last') /\ last'.sender = bot
                   THEN db.BOTS[bot].rounds_added + 1
                   ELSE db.BOTS[bot].rounds_added
       /\ \A bot \in DOMAIN db'.BOTS \ DOMAIN db.BOTS :
             /\ last'.op = "register_bot" /\ last'.sender = bot
             /\ db'.BOTS[bot].rounds_added = 0
       /\ (IsAddRound(last') /\ Succeeded(last')) =>
             /\ ~has(db.SUBMISSIONS, <<last'.args.round, last'.sender>>)
             /\ has(db'.SUBMISSIONS, <<last'.args.round, last'.sender>>)
       /\ \A bot \in DOMAIN db'.BOTS :
             db'.BOTS[bot].rounds_added
                <= Cardinality({k \in DOMAIN db'.SUBMISSIONS : k[2] = bot})]_vars

\* A bot submitted one round, registered, and has just submitted the other:
\* two submissions are recorded and the counter is 1; the other bot
\* submitted both rounds without ever registering.
C37_Witness ==
    /\ IsAddRound(last) /\ Succeeded(last)
    /\ last.sender = "bot1"
    /\ has(db.BOTS, "bot1")
    /\ db.BOTS["bot1"].rounds_added = 1
    /\ Cardinality({k \in DOMAIN db.SUBMISSIONS : k[2] = "bot1"}) = 2
    /\ Cardinality({k \in DOMAIN db.SUBMISSIONS : k[2] = "bot2"}) = 2
    /\ ~has(db.BOTS, "bot2")

\* With k jobs queued before the round's first submission and n submissions
\* recorded, min(k, 3n) jobs are delivered, the first ones, and the others
\* wait in their order; from n = ceil(k/3) on the queue is empty.
DeliveredByNow(round) ==
    LET enqueued == SeqAt(hist.enqueued, round)
        drained == SeqAt(hist.drained, round)
        k == Len(enqueued)
        n == next_index(db, round)
    IN  has(db.BEACONS, round) =>
            /\ Len(drained) = Min2(k, MAX_JOBS_PER_SUBMISSION * n)
            /\ drained = SubSeq(enqueued, 1, Len(drained))
            /\ unprocessed_jobs(db, round) = SubSeq(enqueued, Len(drained) + 1, k)
            /\ MAX_JOBS_PER_SUBMISSION * n >= k =>
                  unprocessed_jobs(db, round) = <<>> /\ drained = enqueued

\* C38 (eventual delivery): a round with k jobs queued when its beacon is
\* first archived has its queue empty and all k jobs delivered after
\* ceil(k/3) successful submissions for it, the first included; no request
\* for an archived round is put into the queue; and, when valid submissions
\* by new submitters keep arriving, a round with queued jobs that are not
\* delivered gets to have every job queued for it delivered.
C38_EventualDelivery ==
    /\ [](\A round \in {RoundA} : DeliveredByNow(round))
    /\ [][\A round \in {RoundA} :
             has(db.BEACONS, round) =>
                 /\ SeqAt(hist'.enqueued, round) = SeqAt(hist.enqueued, round)
                 /\ Len(unprocessed_jobs(db', round)) <= Len(unprocessed_jobs(db, round))]_vars
    /\ \A round \in {RoundA} :
          (Len(SeqAt(hist.enqueued, round)) > Len(SeqAt(hist.drained, round)))
             ~> (SeqAt(hist.drained, round) = SeqAt(hist.enqueued, round))

\* Four jobs were queued for the round when its beacon was archived; the
\* second submission has just delivered the last one.
C38_Witness ==
    /\ IsAddRound(last) /\ Succeeded(last)
    /\ last.args.round = RoundA
    /\ next_index(db, RoundA) = 2
    /\ Len(SeqAt(hist.enqueued, RoundA)) = 4
    /\ SeqAt(hist.drained, RoundA) = SeqAt(hist.enqueued, RoundA)
    /\ Len(IbcMessages(last.messages)) = 1
    /\ unprocessed_jobs(db, RoundA) = <<>>

====
